---- MODULE Spec2Model ----
(***************************************************************************)
(* Translation orchestration core of the chat translator extension:        *)
(* TranslationService (circuit breaker, retry, translate pipeline) on top  *)
(* of StorageManager (translation cache, API configuration, quota).        *)
(*                                                                         *)
(* Every `await` of the source is a yield point: an action of this module  *)
(* is one storage / network / timer completion together with the           *)
(* synchronous continuation that runs up to the next await.                *)
(*                                                                         *)
(* Strings that are hashed or sanitized are sequences of UTF-16 code       *)
(* units; other strings are TLA+ strings.                                  *)
(***************************************************************************)
EXTENDS Integers, Sequences, FiniteSets, TLC

VARIABLES
    failureCount,   \* TranslationService.failureCount
    circuitOpen,    \* TranslationService.circuitOpen
    timers,         \* pending setTimeout callbacks of handleError: remaining ms
    now,            \* Date.now(), ms
    cacheStore,     \* chrome.storage.local[translationCache]: key -> entry
    apiStore,       \* chrome.storage.local[api]: <<>> (never written) or <<config>>
    defaultCfg,     \* the in-memory DEFAULT_API_CONFIG object (returned by reference)
    calls,          \* the translate() invocations in flight
    setter,         \* the setAPIKey() invocation in flight
    siteStore,      \* chrome.storage.local[siteConfigs]: url -> <<>> or <<config>>
    settingsStore,  \* chrome.storage.local[settings]: <<>> or <<settings>>
    settingsCache,  \* StorageManager.cache (a Map): <<>> or <<settings>>
    dets,           \* the getLanguageWithFallback() invocations in flight
    returned,       \* history: site -> <<>> or <<the language of the latest
                    \* detection a call has returned for it>>
    replies,        \* the translate messages of the service worker: the
                    \* message and what the handler has answered
    mgr,            \* the latest direct call of a StorageManager operation:
                    \* its arguments, Date.now(), its result, and (history)
                    \* the triples written to the cache
    served,         \* history: translations the provider has returned
    openFor,        \* history: ms the breaker has been open since it last opened
    streak,         \* history: translate calls that have failed in a row since the
                    \* breaker was closed with failureCount 0; -1 once a call
                    \* has succeeded in between without leaving it so
    lastClose       \* history: what last closed the breaker

vars == <<failureCount, circuitOpen, timers, now, cacheStore, apiStore,
          defaultCfg, calls, setter, siteStore, settingsStore, settingsCache,
          dets, returned, replies, mgr, served, openFor, streak, lastClose>>

----------------------------------------------------------------------------
(* Bounds of the model *)

NCalls == 2             \* translate() invocations that may overlap
MaxTimers == 2          \* pending breaker timers
TicksPerTimeout == 2    \* timer clock resolution: TIMEOUT_MS / TicksPerTimeout
MaxClockSteps == 2      \* wall clock steps of one day
MaxServed == 1           \* translations the provider returns in a run
\* direct StorageManager calls that write (cache or quota) in one behaviour
MaxWrites == 2
NDets == 2              \* getLanguageWithFallback() invocations that may overlap
\* translations the provider returns to overlapping calls for one text
MaxDuplicates == 2

----------------------------------------------------------------------------
(* constants.js *)

THRESHOLD == 5
TIMEOUT_MS == 60000
RETRY_ATTEMPTS == 3
RETRY_DELAY_MS == 1000
MAX_ENTRIES == 1000
TTL_MS == 24 * 60 * 60 * 1000
EVICTION_COUNT == 200
MAX_LENGTH == 5000
maxDailyQuota == 500000

API_KEY_MISSING == "API_KEY_MISSING"
API_KEY_INVALID == "API_KEY_INVALID"
QUOTA_EXCEEDED == "QUOTA_EXCEEDED"
NETWORK_ERROR == "NETWORK_ERROR"
RATE_LIMIT == "RATE_LIMIT"
INVALID_LANGUAGE == "INVALID_LANGUAGE"
TRANSLATION_FAILED == "TRANSLATION_FAILED"
DOM_INJECTION_FAILED == "DOM_INJECTION_FAILED"
DETECTION_FAILED == "DETECTION_FAILED"

ERROR_CODES ==
    {API_KEY_MISSING, API_KEY_INVALID, QUOTA_EXCEEDED, NETWORK_ERROR, RATE_LIMIT,
     INVALID_LANGUAGE, TRANSLATION_FAILED, DOM_INJECTION_FAILED, DETECTION_FAILED}

\* an error object that is no TranslationError has no code property
Undefined == "undefined"

DayMs == 24 * 60 * 60 * 1000
TickMs == TIMEOUT_MS \div TicksPerTimeout
ClockStepMs == DayMs
MaxNow == MaxClockSteps * ClockStepMs

\* new Date().toISOString().split('T')[0]: the UTC calendar day of Date.now()
Today(t) == t \div DayMs

----------------------------------------------------------------------------
(* utils: hashString, generateCacheKey, sanitizeText, isExpired *)

\* One iteration of hashString: hash = ((hash << 5) - hash) + char; hash & hash.
\* The int32 value is kept as its bit pattern <<high 16 bits, low 16 bits>>,
\* so that 31 * hash + char wraps modulo 2^32 as the source's ToInt32 does.
hashStep(hash, char) ==
    LET lo == 31 * hash[2] + char
    IN  <<(31 * hash[1] + (lo \div 65536)) % 65536, lo % 65536>>

RECURSIVE hashFrom(_, _)
hashFrom(hash, str) ==
    IF str = <<>> THEN hash ELSE hashFrom(hashStep(hash, Head(str)), Tail(str))

\* hashString(str): the cache key is hash.toString(36), which is one-to-one
\* on int32 values; the key is represented by the int32 bit pattern.
hashString(str) == hashFrom(<<0, 0>>, str)

\* generateCacheKey: hashString(`${text}|${fromLang}|${toLang}`); 124 is '|'
generateCacheKey(text, fromLang, toLang) ==
    hashString(text \o <<124>> \o fromLang \o <<124>> \o toLang)

IsPrefix(p, s) == Len(p) <= Len(s) /\ SubSeq(s, 1, Len(p)) = p

\* String.prototype.replace(/pat/g, rep) for a literal pattern
RECURSIVE replaceAll(_, _, _)
replaceAll(s, pat, rep) ==
    IF s = <<>> THEN <<>>
    ELSE IF IsPrefix(pat, s)
         THEN rep \o replaceAll(SubSeq(s, Len(pat) + 1, Len(s)), pat, rep)
         ELSE <<Head(s)>> \o replaceAll(Tail(s), pat, rep)

\* text.replace(/<[^>]*>/g, ''): a '<' (60) up to the next '>' (62) is removed
RECURSIVE stripTags(_)
stripTags(s) ==
    IF s = <<>> THEN <<>>
    ELSE IF Head(s) = 60 /\ \E i \in 2..Len(s) : s[i] = 62
         THEN LET close == CHOOSE i \in 2..Len(s) :
                               s[i] = 62 /\ \A j \in 2..(i - 1) : s[j] # 62
              IN  stripTags(SubSeq(s, close + 1, Len(s)))
         ELSE <<Head(s)>> \o stripTags(Tail(s))

\* the code units String.prototype.trim removes (WhiteSpace and LineTerminator)
WhiteSpace ==
    {9, 10, 11, 12, 13, 32, 160, 5760, 8232, 8233, 8239, 8287, 12288, 65279}
        \cup (8192..8202)

RECURSIVE trimStart(_)
trimStart(s) ==
    IF s # <<>> /\ Head(s) \in WhiteSpace THEN trimStart(Tail(s)) ELSE s

RECURSIVE trimEnd(_)
trimEnd(s) ==
    IF s # <<>> /\ s[Len(s)] \in WhiteSpace
    THEN trimEnd(SubSeq(s, 1, Len(s) - 1)) ELSE s

trim(s) == trimEnd(trimStart(s))

substring(s, from, to) == SubSeq(s, from + 1, IF to < Len(s) THEN to ELSE Len(s))

\* the six entity replacements of sanitizeText, in the source's order
decodeEntities(s) ==
    LET s1 == replaceAll(s,  <<38, 108, 116, 59>>, <<60>>)              \* &lt;
        s2 == replaceAll(s1, <<38, 103, 116, 59>>, <<62>>)              \* &gt;
        s3 == replaceAll(s2, <<38, 97, 109, 112, 59>>, <<38>>)          \* &amp;
        s4 == replaceAll(s3, <<38, 113, 117, 111, 116, 59>>, <<34>>)    \* &quot;
        s5 == replaceAll(s4, <<38, 35, 51, 57, 59>>, <<39>>)            \* &#39;
    IN  replaceAll(s5, <<38, 110, 98, 115, 112, 59>>, <<32>>)           \* &nbsp;

\* sanitizeText(text, maxLength): '' for an empty text, otherwise tags
\* stripped, entities decoded, trimmed and cut to maxLength code units
sanitizeText(text, maxLength) ==
    IF text = <<>> THEN <<>>
    ELSE substring(trim(decodeEntities(stripTags(text))), 0, maxLength)

\* mutant: an entry expires as soon as its age reaches the TTL
isExpired_AtTTL(timestamp, ttl, t) == (t - timestamp) >= ttl

\* isExpired(timestamp, ttl) at Date.now() = t
isExpired(timestamp, ttl, t) == (t - timestamp) > ttl

----------------------------------------------------------------------------
(* StorageManager: translation cache.  A cache object is the sequence of   *)
(* its entries [key, translation, timestamp, hits] in property order.      *)

Null == "null"

CacheIndex(cache, key) ==
    IF \E i \in 1..Len(cache) : cache[i].key = key
    THEN CHOOSE i \in 1..Len(cache) : cache[i].key = key
    ELSE 0

\* getCachedTranslation after the storage read: `stored` is the object read,
\* ioOk = FALSE when chrome.storage.local.get rejected (caught: null)
getCachedTranslation(stored, text, fromLang, toLang, t, ioOk) ==
    LET key == generateCacheKey(text, fromLang, toLang)
        i == CacheIndex(stored, key)
    IN  IF ~ioOk THEN Null
        ELSE IF i = 0 THEN Null
        ELSE IF isExpired(stored[i].timestamp, TTL_MS, t) THEN Null
        ELSE stored[i].translation

\* entries.sort((a, b) => a[1].timestamp - b[1].timestamp), a stable sort:
\* timestamps ascending, the entries of one timestamp in property order
RECURSIVE sortByTimestamp(_, _)
sortByTimestamp(entries, stamps) ==
    IF stamps = {} THEN <<>>
    ELSE LET oldest == CHOOSE t \in stamps : \A u \in stamps : t <= u
             IsOldest(e) == e.timestamp = oldest
         IN  SelectSeq(entries, IsOldest)
                 \o sortByTimestamp(entries, stamps \ {oldest})

\* mutant: the first `count` entries in property order are dropped
evictOldestCacheEntries_Unsorted(cache, count) ==
    SubSeq(cache, count + 1, Len(cache))

\* Object.fromEntries(Object.entries(cache).sort(by timestamp).slice(count))
evictOldestCacheEntries(cache, count) ==
    LET sorted == sortByTimestamp(cache,
                      {cache[i].timestamp : i \in 1..Len(cache)})
    IN  SubSeq(sorted, count + 1, Len(sorted))

\* mutant: the grown cache is stored without the eviction
setCachedTranslation_NoEviction(stored, text, fromLang, toLang, translation, t) ==
    LET key == generateCacheKey(text, fromLang, toLang)
        i == CacheIndex(stored, key)
        entry == [key |-> key, translation |-> translation, timestamp |-> t,
                  hits |-> (IF i = 0 THEN 0 ELSE stored[i].hits) + 1]
    IN  IF i = 0 THEN Append(stored, entry) ELSE [stored EXCEPT ![i] = entry]

\* the object setCachedTranslation hands to chrome.storage.local.set
setCachedTranslation(stored, text, fromLang, toLang, translation, t) ==
    LET key == generateCacheKey(text, fromLang, toLang)
        i == CacheIndex(stored, key)
        entry == [key |-> key, translation |-> translation, timestamp |-> t,
                  hits |-> (IF i = 0 THEN 0 ELSE stored[i].hits) + 1]
        cache == IF i = 0 THEN Append(stored, entry)
                 ELSE [stored EXCEPT ![i] = entry]
    IN  IF Len(cache) > MAX_ENTRIES
        THEN evictOldestCacheEntries(cache, EVICTION_COUNT)
        ELSE cache

----------------------------------------------------------------------------
(* StorageManager: API configuration, credential, quota *)

\* googleTranslateKey: '' in DEFAULT_API_CONFIG, else {encrypted, iv}.  The
\* ciphertext is determined by the plaintext and the salt the AES-GCM key was
\* derived from (the per-encryption IV is stored beside it and not modelled).
NoKey == [encrypted |-> FALSE, plain |-> "", salt |-> ""]

\* encryptAPIKey(apiKey, salt)
encryptAPIKey(apiKey, salt) == [encrypted |-> TRUE, plain |-> apiKey, salt |-> salt]

\* decryptAPIKey(encryptedData, salt): AES-GCM authentication fails (throws)
\* unless the key is derived from the salt used to encrypt; cryptoOk = FALSE
\* when deriving the browser instance key or the decryption itself throws
decryptAPIKey(encryptedData, salt, cryptoOk) ==
    IF cryptoOk /\ encryptedData.salt = salt
    THEN [ok |-> TRUE, value |-> encryptedData.plain]
    ELSE [ok |-> FALSE, value |-> ""]

\* DEFAULT_API_CONFIG as constructed at module load, Date.now() = t
DEFAULT_API_CONFIG(t) ==
    [googleTranslateKey |-> NoKey, encryptionSalt |-> "", dailyQuotaUsed |-> 0,
     quotaResetDate |-> Today(t), maxDailyQuota |-> maxDailyQuota]

\* getAPIConfig: result[api] || DEFAULT_API_CONFIG; DEFAULT_API_CONFIG too when
\* the read rejects.  aliased: the caller holds the DEFAULT_API_CONFIG object
getAPIConfig(stored, dflt, ioOk) ==
    IF ioOk /\ stored # <<>>
    THEN [config |-> stored[1], aliased |-> FALSE]
    ELSE [config |-> dflt, aliased |-> TRUE]

\* getAPIKey on the config read: the plaintext key, or null
getAPIKey(config, cryptoOk) ==
    IF ~config.googleTranslateKey.encrypted THEN Null
    ELSE LET d == decryptAPIKey(config.googleTranslateKey, config.encryptionSalt,
                                cryptoOk)
         IN  IF d.ok THEN d.value ELSE Null

\* mutant: the stored count is reported whatever the stored date
getQuotaStatus_NoRollover(config, t) ==
    [used |-> config.dailyQuotaUsed, max |-> config.maxDailyQuota]

\* getQuotaStatus on the config read, at Date.now() = t
getQuotaStatus(config, t) ==
    IF config.quotaResetDate # Today(t)
    THEN [used |-> 0, max |-> config.maxDailyQuota]
    ELSE [used |-> config.dailyQuotaUsed, max |-> config.maxDailyQuota]

\* mutant: the character count replaces the day's count instead of adding to it
trackQuotaUsage_Overwrite(config, characterCount, t) ==
    [config EXCEPT !.dailyQuotaUsed = characterCount, !.quotaResetDate = Today(t)]

\* mutant: the count is added to the previous day's count
\* mutant: the count of a call is not added to the counter
trackQuotaUsage_NotAdded(config, characterCount, t) ==
    IF config.quotaResetDate # Today(t)
    THEN [config EXCEPT !.dailyQuotaUsed = 0, !.quotaResetDate = Today(t)]
    ELSE config

trackQuotaUsage_NoReset(config, characterCount, t) ==
    [config EXCEPT !.dailyQuotaUsed = @ + characterCount,
                   !.quotaResetDate = Today(t)]

\* trackQuotaUsage: the config object after the reset and the addition
trackQuotaUsage(config, characterCount, t) ==
    LET c1 == IF config.quotaResetDate # Today(t)
              THEN [config EXCEPT !.dailyQuotaUsed = 0, !.quotaResetDate = Today(t)]
              ELSE config
    IN  [c1 EXCEPT !.dailyQuotaUsed = @ + characterCount]

----------------------------------------------------------------------------
(* TranslationService: error classification and circuit breaker *)

TranslationError(code, retryable) == [code |-> code, retryable |-> retryable]

\* handleAPIError(status, errorData)
handleAPIError(status) ==
    CASE status = 400 -> TranslationError(INVALID_LANGUAGE, FALSE)
      [] status \in {401, 403} -> TranslationError(API_KEY_INVALID, FALSE)
      [] status = 429 -> TranslationError(RATE_LIMIT, TRUE)
      [] status \in {500, 502, 503, 504} -> TranslationError(NETWORK_ERROR, TRUE)
      [] OTHER -> TranslationError(TRANSLATION_FAILED, FALSE)

\* mutant: the breaker opens only above the threshold
handleError_AboveThreshold(fc, open, tms) ==
    LET n == fc + 1
    IN  IF n > THRESHOLD
        THEN [failureCount |-> n, circuitOpen |-> TRUE,
              timers |-> Append(tms, TIMEOUT_MS)]
        ELSE [failureCount |-> n, circuitOpen |-> open, timers |-> tms]

\* mutant: the breaker opens without scheduling its closing callback
handleError_NoTimer(fc, open, tms) ==
    LET n == fc + 1
    IN  [failureCount |-> n, circuitOpen |-> (open \/ n >= THRESHOLD), timers |-> tms]

\* handleError: failureCount++, and at the threshold open the breaker and
\* schedule the closing callback TIMEOUT_MS from now
handleError(fc, open, tms) ==
    LET n == fc + 1
    IN  IF n >= THRESHOLD
        THEN [failureCount |-> n, circuitOpen |-> TRUE,
              timers |-> Append(tms, TIMEOUT_MS)]
        ELSE [failureCount |-> n, circuitOpen |-> open, timers |-> tms]


----------------------------------------------------------------------------
(* Inputs *)

Calls == 1..NCalls

\* message texts: "Hello", "<b>Hi</b>", "", " "
Texts == {<<72, 101, 108, 108, 111>>, <<60, 98, 62, 72, 105, 60, 47, 98, 62>>,
          <<>>, <<32>>}

\* (fromLang, toLang): ("en", "es") and ("es", "en")
LangPairs == {<<(<<101, 110>>), (<<101, 115>>)>>, <<(<<101, 115>>), (<<101, 110>>)>>}

\* data.data.translations[0].translatedText of an OK response
Translations == {"Hola", ""}

\* what fetch() and response.json() can produce
Responses ==
    [kind : {"ok"}, text : Translations, status : {200}]
        \cup [kind : {"malformed"}, text : {""}, status : {200}]
        \cup [kind : {"status"}, text : {""},
              status : {400, 401, 403, 404, 429, 500, 501, 502, 503, 504}]
        \cup [kind : {"badJson", "rejected"}, text : {""}, status : {0}]

ApiKeys == {"AIzaA", "AIzaB"}
Salts == {"s1", "s2"}

----------------------------------------------------------------------------
(* State *)

NoResult == [ok |-> FALSE, translatedText |-> "", fromCache |-> FALSE,
             code |-> "", retryable |-> FALSE]

Success(text, fromCache) ==
    [ok |-> TRUE, translatedText |-> text, fromCache |-> fromCache,
     code |-> "", retryable |-> FALSE]

Failure(error) ==
    [ok |-> FALSE, translatedText |-> "", fromCache |-> FALSE,
     code |-> error.code, retryable |-> error.retryable]

\* a translate() invocation: its position, its locals, its result, and (history)
\* what it has done: network requests issued, storage areas read and written,
\* the StorageManager calls in which a storage or crypto operation was
\* rejected, and the configuration that was persisted when trackQuotaUsage
\* read it, and the provider's answer to the attempt that has just completed.
\* aliased: the config object held is DEFAULT_API_CONFIG itself, so what is
\* written later is that object as it is then
NoAnswer == [kind |-> "none", text |-> "", status |-> 0]

IdleCall ==
    [pc |-> "idle", text |-> <<>>, fromLang |-> <<>>, toLang |-> <<>>,
     apiKey |-> "", attempt |-> 0, sleep |-> 0, translation |-> "",
     cache |-> <<>>, config |-> <<>>, aliased |-> FALSE, res |-> NoResult,
     reqs |-> 0, rd |-> {}, wr |-> {}, failed |-> {}, before |-> <<>>,
     answer |-> NoAnswer]

IdleSetter ==
    [pc |-> "idle", apiKey |-> "", salt |-> "", config |-> <<>>,
     aliased |-> FALSE, ok |-> FALSE]

----------------------------------------------------------------------------
(* LanguageDetector: confidences, detection results, contexts *)

\* Confidences are the rationals <<numerator, denominator>> in lowest terms
\* (the program computes them in double precision).
RECURSIVE GCD(_, _)
GCD(a, b) == IF b = 0 THEN a ELSE GCD(b, a % b)

Q(n, d) == LET g == GCD(n, d) IN <<n \div g, d \div g>>
QAdd(a, b) == Q(a[1] * b[2] + b[1] * a[2], a[2] * b[2])
QDiv(a, k) == Q(a[1], a[2] * k)
QGeq(a, b) == a[1] * b[2] >= b[1] * a[2]

\* this.confidenceThreshold = 0.8
\* mutant: the threshold is the confidence of the page metadata
confidenceThreshold_PageMetadata == Q(7, 10)

confidenceThreshold == Q(8, 10)

\* a detection result {language, confidence, method}; null is <<>>
DetectionResult(language, confidence, method) ==
    [language |-> language, confidence |-> confidence, method |-> method]

IsLower(c) == c \in 97..122
IsUpper(c) == c \in 65..90
IsLetter(c) == IsLower(c) \/ IsUpper(c)
Lower(c) == IF IsUpper(c) THEN c + 32 ELSE c
toLowerCase(s) == [i \in 1..Len(s) |-> Lower(s[i])]

\* isValidLanguageCode(code): /^[a-z]{2}(-[A-Z]{2})?$/
isValidLanguageCode(code) ==
    \/ Len(code) = 2 /\ IsLower(code[1]) /\ IsLower(code[2])
    \/ /\ Len(code) = 5
       /\ IsLower(code[1]) /\ IsLower(code[2])
       /\ code[3] = 45
       /\ IsUpper(code[4]) /\ IsUpper(code[5])

\* the literal lit stands in s at position i; ci: ignoring case (flag i)
LitAt(s, i, lit, ci) ==
    /\ i >= 1
    /\ i + Len(lit) - 1 <= Len(s)
    /\ \A j \in 1..Len(lit) :
           IF ci THEN Lower(s[i + j - 1]) = Lower(lit[j]) ELSE s[i + j - 1] = lit[j]

includes(s, lit) == \E i \in 1..Len(s) : LitAt(s, i, lit, FALSE)

\* the least element of a non-empty set of positions, 0 for the empty set
First(positions) ==
    IF positions = {} THEN 0
    ELSE CHOOSE i \in positions : \A j \in positions : i <= j

\* url.match(/[?&]name=([a-z]{2})/i): the position of the first match, or 0
ParamAt(url, name) ==
    First({i \in 1..Len(url) :
        /\ url[i] \in {63, 38}
        /\ LitAt(url, i + 1, name, TRUE)
        /\ i + Len(name) + 2 <= Len(url)
        /\ IsLetter(url[i + Len(name) + 1])
        /\ IsLetter(url[i + Len(name) + 2])})

\* url.match(/\/([a-z]{2})[-_]([A-Z]{2})\//)
LocalePathAt(url) ==
    First({i \in 1..Len(url) :
        /\ i + 6 <= Len(url)
        /\ url[i] = 47
        /\ IsLower(url[i + 1]) /\ IsLower(url[i + 2])
        /\ url[i + 3] \in {45, 95}
        /\ IsUpper(url[i + 4]) /\ IsUpper(url[i + 5])
        /\ url[i + 6] = 47})

\* url.match(/\/([a-z]{2})\//)
LangPathAt(url) ==
    First({i \in 1..Len(url) :
        /\ i + 3 <= Len(url)
        /\ url[i] = 47
        /\ IsLower(url[i + 1]) /\ IsLower(url[i + 2])
        /\ url[i + 3] = 47})

LangEq == <<108, 97, 110, 103, 61>>    \* "lang="
LanguageEq == <<108, 97, 110, 103, 117, 97, 103, 101, 61>>    \* "language="
SetlnEq == <<115, 101, 116, 108, 110, 61>>    \* "setln="
LocaleEq == <<108, 111, 99, 97, 108, 101, 61>>    \* "locale="
Https == <<104, 116, 116, 112, 115, 58, 47, 47>>    \* "https://"
Http == <<104, 116, 116, 112, 58, 47, 47>>    \* "http://"
WhatsappCom == <<119, 104, 97, 116, 115, 97, 112, 112, 46, 99, 111, 109>>    \* "whatsapp.com"
TelegramOrg == <<116, 101, 108, 101, 103, 114, 97, 109, 46, 111, 114, 103>>    \* "telegram.org"
MessengerCom == <<109, 101, 115, 115, 101, 110, 103, 101, 114, 46, 99, 111, 109>>    \* "messenger.com"
FacebookCom == <<102, 97, 99, 101, 98, 111, 111, 107, 46, 99, 111, 109>>    \* "facebook.com"

\* new URL(url) accepts the url (it throws a TypeError otherwise); the urls
\* of the model are absolute http(s) urls or have no scheme at all
IsURL(url) == IsPrefix(Https, url) \/ IsPrefix(Http, url)

\* new URL(url).hostname: lower case, up to the port, path, query or fragment
hostname(url) ==
    LET start == IF IsPrefix(Https, url) THEN Len(Https) + 1 ELSE Len(Http) + 1
        stop == First({i \in start..Len(url) : url[i] \in {47, 63, 35, 58}})
    IN  toLowerCase(SubSeq(url, start, IF stop = 0 THEN Len(url) ELSE stop - 1))

\* detectByPlatform(url), for a url that new URL accepts
detectByPlatform(url) ==
    LET domain == hostname(url)
        setln == First({i \in 1..Len(url) :
                     /\ url[i] = 63
                     /\ LitAt(url, i + 1, SetlnEq, TRUE)
                     /\ i + 8 <= Len(url)
                     /\ IsLetter(url[i + 7]) /\ IsLetter(url[i + 8])})
        locale == First({i \in 1..Len(url) :
                     /\ LitAt(url, i, LocaleEq, TRUE)
                     /\ i + 11 <= Len(url)
                     /\ IsLetter(url[i + 7]) /\ IsLetter(url[i + 8])
                     /\ url[i + 9] = 95
                     /\ IsLetter(url[i + 10]) /\ IsLetter(url[i + 11])})
    IN  IF includes(domain, WhatsappCom) THEN <<>>
        ELSE IF includes(domain, TelegramOrg) /\ setln # 0
        THEN <<DetectionResult(SubSeq(url, setln + 7, setln + 8), Q(75, 100),
                               "platform-telegram")>>
        ELSE IF (includes(domain, MessengerCom) \/ includes(domain, FacebookCom))
                /\ locale # 0
        THEN <<DetectionResult(SubSeq(url, locale + 7, locale + 8), Q(75, 100),
                               "platform-facebook")>>
        ELSE <<>>

\* detectByURL(url): url <<>> is a missing url.  The first pattern whose
\* match is a valid language code decides; then the platform; an url that
\* new URL rejects makes detectByPlatform throw, which is caught (null)
detectByURL(url) ==
    LET lang == ParamAt(url, LangEq)
        language == ParamAt(url, LanguageEq)
        localePath == LocalePathAt(url)
        langPath == LangPathAt(url)
        Found(code) == <<DetectionResult(code, Q(6, 10), "urlPattern")>>
        c1 == SubSeq(url, lang + Len(LangEq) + 1, lang + Len(LangEq) + 2)
        c2 == SubSeq(url, language + Len(LanguageEq) + 1,
                     language + Len(LanguageEq) + 2)
        c3 == SubSeq(url, localePath + 1, localePath + 2)
        c4 == SubSeq(url, langPath + 1, langPath + 2)
    IN  IF url = <<>> THEN <<>>
        ELSE IF lang # 0 /\ isValidLanguageCode(c1) THEN Found(c1)
        ELSE IF language # 0 /\ isValidLanguageCode(c2) THEN Found(c2)
        ELSE IF localePath # 0 /\ isValidLanguageCode(c3) THEN Found(c3)
        ELSE IF langPath # 0 /\ isValidLanguageCode(c4) THEN Found(c4)
        ELSE IF ~IsURL(url) THEN <<>>
        ELSE detectByPlatform(url)

\* detectByPageMetadata(pageInfo): pageInfo <<>> is a missing pageInfo, an
\* empty htmlLang or metaLanguage a missing or empty attribute
detectByPageMetadata(pageInfo) ==
    IF pageInfo = <<>> THEN <<>>
    ELSE IF pageInfo[1].htmlLang # <<>> /\ isValidLanguageCode(pageInfo[1].htmlLang)
    THEN <<DetectionResult(pageInfo[1].htmlLang, Q(7, 10), "pageMetadata")>>
    ELSE IF /\ pageInfo[1].metaLanguage # <<>>
            /\ isValidLanguageCode(pageInfo[1].metaLanguage)
    THEN <<DetectionResult(pageInfo[1].metaLanguage, Q(7, 10), "pageMetadata")>>
    ELSE <<>>

\* messages.slice(-20)
recentMessages(messages) ==
    SubSeq(messages, IF Len(messages) > 20 THEN Len(messages) - 19 ELSE 1,
           Len(messages))

\* msg.text && msg.text.length > 10, for a message {text}
IsMeaningful(msg) == msg.text # <<>> /\ Len(msg.text) > 10

\* recentMessages.filter(...).slice(0, 10): the messages handed to
\* translationService.detectLanguage
sampleMessages(messages) ==
    LET meaningfulMessages == SelectSeq(recentMessages(messages), IsMeaningful)
    IN  SubSeq(meaningfulMessages, 1,
               IF Len(meaningfulMessages) > 10 THEN 10
               ELSE Len(meaningfulMessages))

\* a message that is null or undefined makes the filter callback throw
FilterThrows(messages) ==
    \E i \in 1..Len(recentMessages(messages)) : ~recentMessages(messages)[i].given

\* languageFrequency[language].count and .confidence over the detections
Count(detections, language) ==
    Cardinality({i \in 1..Len(detections) : detections[i].language = language})

RECURSIVE SumConfidence(_, _)
SumConfidence(detections, language) ==
    IF detections = <<>> THEN Q(0, 1)
    ELSE IF Head(detections).language = language
    THEN QAdd(Head(detections).confidence,
              SumConfidence(Tail(detections), language))
    ELSE SumConfidence(Tail(detections), language)

\* mutant: the mean confidence is taken over all detections (totalConfidence)
mostFrequent_TotalConfidence(detections) ==
    LET Languages == {detections[i].language : i \in 1..Len(detections)}
        FirstAt(l) == First({i \in 1..Len(detections) : detections[i].language = l})
        language == CHOOSE l \in Languages : \A m \in Languages :
                        \/ Count(detections, l) > Count(detections, m)
                        \/ /\ Count(detections, l) = Count(detections, m)
                           /\ FirstAt(l) <= FirstAt(m)
        RECURSIVE Total(_)
        Total(ds) == IF ds = <<>> THEN Q(0, 1)
                     ELSE QAdd(Head(ds).confidence, Total(Tail(ds)))
    IN  [language |-> language,
         confidence |-> QDiv(Total(detections), Len(detections)),
         frequency |-> Q(Count(detections, language), Len(detections))]

\* the entry of languageFrequency with the greatest count, the first in
\* property order (order of first detection) among equals: its language, its
\* average confidence and its share of the detections
mostFrequent(detections) ==
    LET Languages == {detections[i].language : i \in 1..Len(detections)}
        FirstAt(l) == First({i \in 1..Len(detections) : detections[i].language = l})
        language == CHOOSE l \in Languages : \A m \in Languages :
                        \/ Count(detections, l) > Count(detections, m)
                        \/ /\ Count(detections, l) = Count(detections, m)
                           /\ FirstAt(l) <= FirstAt(m)
    IN  [language |-> language,
         confidence |-> QDiv(SumConfidence(detections, language),
                             Count(detections, language)),
         frequency |-> Q(Count(detections, language), Len(detections))]

\* what detectByMessageHistory returns for the detections gathered
historyResult(detections) ==
    IF detections = <<>> THEN <<>>
    ELSE LET m == mostFrequent(detections)
         IN  <<DetectionResult(m.language,
                               QDiv(QAdd(m.confidence, m.frequency), 2),
                               "messageHistory")>>

\* a context: given = FALSE for a null or undefined context; messages of
\* kind "array" (a list of messages {text}, given = FALSE for a null one),
\* "missing" or "malformed" (not an array); pageInfo and url as above
NoContext ==
    [given |-> FALSE, messages |-> [kind |-> "missing", list |-> <<>>],
     pageInfo |-> <<>>, url |-> <<>>]

\* a getLanguageWithFallback() invocation: its position, its arguments and
\* locals (samples: the messages detectByMessageHistory detects one by one, i:
\* the one in hand; byHistory: the result of detectByMessageHistory;
\* detected: the result of detectChatLanguage; configs: the
\* site configurations read by setSiteConfig), its result, and (history) the
\* strategies run, the texts sent to the detection API, the outcome of each
\* detectLanguage call, the storage areas read and written, those of which
\* an operation was rejected, the latest answer of the detection endpoint,
\* and whether the breaker was open when each request was sent
IdleDet ==
    [pc |-> "idle", url |-> "", context |-> NoContext, samples |-> <<>>, i |-> 0,
     detections |-> <<>>, byHistory |-> <<>>, detected |-> <<>>, siteConfig |-> <<>>, configs |-> <<>>,
     result |-> <<>>, ran |-> <<>>, sent |-> <<>>, outcomes |-> <<>>, rd |-> {},
     wr |-> {}, rej |-> {}, answer |-> <<>>, open |-> <<>>]

Dets == 1..NDets
Sites == {"site1", "site2"}

\* no translate message is in hand: the state of the handler ("none", then
\* "received", "notified" once notifyError has returned, "answered" or
\* "rejected"), the message, and the response
NoMessage ==
    [state |-> "none", handler |-> "", text |-> <<>>, langs |-> <<>>, tab |-> "",
     response |-> <<>>]

\* no StorageManager operation has been called directly
IdleMgr ==
    [name |-> "none", text |-> <<>>, fromLang |-> <<>>, toLang |-> <<>>,
     translation |-> "", n |-> 0, at |-> 0, ok |-> FALSE, cached |-> Null,
     quota |-> <<>>, triples |-> {}, writes |-> 0]

\* persisted API configurations the program can have written earlier
StoredConfigs ==
    {[googleTranslateKey |-> k, encryptionSalt |-> k.salt, dailyQuotaUsed |-> u,
      quotaResetDate |-> 0, maxDailyQuota |-> maxDailyQuota] :
        k \in {encryptAPIKey("AIzaA", "s1")},
        u \in {0, maxDailyQuota - 3, maxDailyQuota}}

Init ==
    /\ failureCount = 0
    /\ circuitOpen = FALSE
    /\ timers = <<>>
    /\ now = 0
    /\ cacheStore = <<>>
    /\ apiStore \in {<<>>} \cup {<<c>> : c \in StoredConfigs}
    /\ defaultCfg = DEFAULT_API_CONFIG(0)
    /\ calls = [c \in Calls |-> IdleCall]
    /\ setter = IdleSetter
    /\ siteStore = [u \in Sites |-> <<>>]
    /\ settingsStore = <<>>
    /\ settingsCache = <<>>
    /\ dets = [d \in Dets |-> IdleDet]
    /\ returned = [u \in Sites |-> <<>>]
    /\ replies = [c \in Calls |-> NoMessage]
    /\ mgr = IdleMgr
    /\ served = 0
    /\ openFor = 0
    /\ streak = 0
    /\ lastClose = "none"

breaker == <<failureCount, circuitOpen, timers>>
detector == <<siteStore, settingsStore, settingsCache, dets, returned>>
storage == <<cacheStore, apiStore, defaultCfg>>
history == <<openFor, streak, lastClose>>
AllIdle == setter.pc = "idle" /\ \A c \in Calls : calls[c].pc = "idle"

\* the API configuration a successful getAPIConfig returns in this state
Persisted == getAPIConfig(apiStore, defaultCfg, TRUE).config

----------------------------------------------------------------------------
(* translate(text, fromLang, toLang) *)

\* history: the run of failures restarts after a successful call that leaves
\* the breaker closed with failureCount 0
AfterSuccess(fc, open) == IF fc = 0 /\ ~open THEN 0 ELSE -1

\* catch (error) { this.handleError(error); throw error; }
\* mutant: the catch counts one failure for every request the call sent
Throw_PerAttempt(c, error, read, rejected, answer) ==
    LET extra == IF calls[c].reqs > 1 THEN calls[c].reqs - 1 ELSE 0
        h == handleError(failureCount + extra, circuitOpen, timers)
    IN  /\ Len(h.timers) <= MaxTimers
        /\ failureCount' = h.failureCount
        /\ circuitOpen' = h.circuitOpen
        /\ timers' = h.timers
        /\ streak' = IF streak >= 0 THEN streak + 1 ELSE streak
        /\ openFor' = IF ~circuitOpen /\ h.circuitOpen THEN 0 ELSE openFor
        /\ lastClose' = lastClose
        /\ calls' = [calls EXCEPT ![c].pc = "done", ![c].res = Failure(error),
                                  ![c].attempt = 0, ![c].rd = @ \cup read,
                                  ![c].failed = @ \cup rejected,
                                  ![c].answer = answer]

Throw(c, error, read, rejected, answer) ==
    LET h == handleError(failureCount, circuitOpen, timers)
    IN  /\ Len(h.timers) <= MaxTimers
        /\ failureCount' = h.failureCount
        /\ circuitOpen' = h.circuitOpen
        /\ timers' = h.timers
        /\ streak' = IF streak >= 0 THEN streak + 1 ELSE streak
        /\ openFor' = IF ~circuitOpen /\ h.circuitOpen THEN 0 ELSE openFor
        /\ lastClose' = lastClose
        /\ calls' = [calls EXCEPT ![c].pc = "done", ![c].res = Failure(error),
                                  ![c].attempt = 0, ![c].rd = @ \cup read,
                                  ![c].failed = @ \cup rejected,
                                  ![c].answer = answer]

\* mutant: translate without the breaker check
TranslateBegin_NoBreakerCheck(c, text, langs) ==
    /\ calls[c].pc = "idle"
    /\ UNCHANGED <<now, storage, setter, mgr, detector, replies, served>>
    /\ LET cleanText == sanitizeText(text, MAX_LENGTH)
       IN  IF cleanText = <<>>
           THEN Throw(c, TranslationError(TRANSLATION_FAILED, FALSE), {}, {}, NoAnswer)
           ELSE /\ calls' = [calls EXCEPT ![c].pc = "cacheLookup",
                                ![c].text = cleanText,
                                ![c].fromLang = langs[1],
                                ![c].toLang = langs[2]]
                /\ UNCHANGED <<breaker, history>>

\* translate up to the first await: breaker check, sanitizeText, and the call
\* of getCachedTranslation
TranslateBegin(c, text, langs) ==
    /\ calls[c].pc = "idle"
    /\ UNCHANGED <<now, storage, setter, mgr, detector, replies, served>>
    /\ IF circuitOpen
       THEN /\ calls' = [calls EXCEPT ![c].pc = "done",
                            ![c].res = Failure(TranslationError(RATE_LIMIT, TRUE))]
            /\ UNCHANGED <<breaker, history>>
       ELSE LET cleanText == sanitizeText(text, MAX_LENGTH)
            IN  IF cleanText = <<>>
                THEN Throw(c, TranslationError(TRANSLATION_FAILED, FALSE), {}, {}, NoAnswer)
                ELSE /\ calls' = [calls EXCEPT ![c].pc = "cacheLookup",
                                     ![c].text = cleanText,
                                     ![c].fromLang = langs[1],
                                     ![c].toLang = langs[2]]
                     /\ UNCHANGED <<breaker, history>>

\* the cache read of getCachedTranslation completes; on a hit translate
\* returns, otherwise it calls getAPIKey
TranslateCacheLookup(c, ioOk) ==
    /\ calls[c].pc = "cacheLookup"
    /\ UNCHANGED <<now, storage, setter, mgr, detector, replies, served, breaker, openFor, lastClose>>
    /\ LET cached == getCachedTranslation(cacheStore, calls[c].text,
                         calls[c].fromLang, calls[c].toLang, now, ioOk)
           rejected == IF ioOk THEN {} ELSE {"getCachedTranslation"}
       IN  IF cached # Null /\ cached # ""
           THEN /\ calls' = [calls EXCEPT ![c].pc = "done",
                                ![c].res = Success(cached, TRUE),
                                ![c].rd = @ \cup {"cache"}]
                /\ streak' = AfterSuccess(failureCount, circuitOpen)
           ELSE /\ calls' = [calls EXCEPT ![c].pc = "getAPIKey",
                                ![c].rd = @ \cup {"cache"},
                                ![c].failed = @ \cup rejected]
                /\ streak' = streak

\* the config read of getAPIKey completes and the key is decrypted; with a key
\* translate calls getQuotaStatus
TranslateGetAPIKey(c, ioOk, cryptoOk) ==
    /\ calls[c].pc = "getAPIKey"
    /\ UNCHANGED <<now, storage, setter, mgr, detector, replies, served>>
    /\ LET config == getAPIConfig(apiStore, defaultCfg, ioOk).config
           apiKey == getAPIKey(config, cryptoOk)
           rejected == IF ~ioOk \/ (config.googleTranslateKey.encrypted /\ ~cryptoOk)
                       THEN {"getAPIKey"} ELSE {}
       IN  IF apiKey = Null \/ apiKey = ""
           THEN Throw(c, TranslationError(API_KEY_MISSING, FALSE), {"api"}, rejected,
                      NoAnswer)
           ELSE /\ calls' = [calls EXCEPT ![c].pc = "getQuotaStatus",
                                ![c].apiKey = apiKey,
                                ![c].rd = @ \cup {"api"},
                                ![c].failed = @ \cup rejected]
                /\ UNCHANGED <<breaker, history>>

\* mutant: the quota check lets a used quota equal to the maximum pass
quotaExceeded_StrictlyAbove(quotaStatus) == quotaStatus.used > quotaStatus.max

\* quotaStatus.used >= quotaStatus.max
quotaExceeded(quotaStatus) == quotaStatus.used >= quotaStatus.max

\* the config read of getQuotaStatus completes; under the quota translate
\* calls translateWithRetry, which issues the first fetch
TranslateCheckQuota(c, ioOk) ==
    /\ calls[c].pc = "getQuotaStatus"
    /\ UNCHANGED <<now, storage, setter, mgr, detector, replies, served>>
    /\ LET quotaStatus == getQuotaStatus(
                              getAPIConfig(apiStore, defaultCfg, ioOk).config, now)
           rejected == IF ioOk THEN {} ELSE {"getQuotaStatus"}
       IN  IF quotaExceeded(quotaStatus)
           THEN Throw(c, TranslationError(QUOTA_EXCEEDED, FALSE), {"api"}, rejected,
                      NoAnswer)
           ELSE /\ calls' = [calls EXCEPT ![c].pc = "fetch",
                                ![c].attempt = 1,
                                ![c].reqs = @ + 1,
                                ![c].rd = @ \cup {"api"},
                                ![c].failed = @ \cup rejected]
                /\ UNCHANGED <<breaker, history>>

\* the error translateWithRetry's try block ends with for a response, or
\* "none" when it returns the translated text
ResponseError(resp) ==
    CASE resp.kind = "ok" -> [code |-> "none", retryable |-> FALSE]
      [] resp.kind = "malformed" -> TranslationError(TRANSLATION_FAILED, TRUE)
      [] resp.kind = "status" -> handleAPIError(resp.status)
      [] OTHER -> [code |-> Undefined, retryable |-> FALSE]

\* mutant: one attempt more than maxRetries
shouldRetry_OneMore(error, attempt) == error.retryable /\ attempt <= RETRY_ATTEMPTS

\* error.retryable && attempt < this.maxRetries
shouldRetry(error, attempt) == error.retryable /\ attempt < RETRY_ATTEMPTS

\* this.retryDelay * Math.pow(2, attempt - 1)
retryDelay(attempt) == RETRY_DELAY_MS * 2 ^ (attempt - 1)

\* a fetch of translateWithRetry completes: the text is returned and translate
\* calls setCachedTranslation, or the error is retried after sleep(delay), or
\* it is thrown to translate's catch
TranslateFetch(c, resp) ==
    /\ calls[c].pc = "fetch"
    /\ UNCHANGED <<now, storage, setter, mgr, detector, replies>>
    /\ served' = IF resp.kind = "ok" THEN served + 1 ELSE served
    /\ LET error == ResponseError(resp)
       IN  IF error.code = "none"
           THEN /\ calls' = [calls EXCEPT ![c].pc = "cacheRead",
                                ![c].attempt = 0,
                                ![c].translation = resp.text,
                                ![c].answer = resp]
                /\ UNCHANGED <<breaker, history>>
           ELSE IF shouldRetry(error, calls[c].attempt)
           THEN /\ calls' = [calls EXCEPT ![c].pc = "sleep",
                                ![c].sleep = retryDelay(calls[c].attempt),
                                ![c].answer = resp]
                /\ UNCHANGED <<breaker, history>>
           ELSE Throw(c, error, {}, {}, resp)

\* sleep(delay) is over: translateWithRetry(..., attempt + 1) issues its fetch
TranslateRetry(c) ==
    /\ calls[c].pc = "sleep"
    /\ calls[c].sleep = 0
    /\ calls' = [calls EXCEPT ![c].pc = "fetch", ![c].attempt = @ + 1,
                    ![c].reqs = @ + 1, ![c].answer = NoAnswer]
    /\ UNCHANGED <<now, storage, setter, mgr, detector, replies, served, breaker, history>>

\* the cache read of setCachedTranslation completes: the new cache object is
\* built and handed to chrome.storage.local.set; a rejected read is caught
\* and translate goes on to trackQuotaUsage
TranslateCacheRead(c, ioOk) ==
    /\ calls[c].pc = "cacheRead"
    /\ UNCHANGED <<now, storage, setter, mgr, detector, replies, served, breaker, history>>
    /\ IF ioOk
       THEN calls' = [calls EXCEPT ![c].pc = "cacheWrite",
                         ![c].cache = setCachedTranslation(cacheStore, calls[c].text,
                                          calls[c].fromLang, calls[c].toLang,
                                          calls[c].translation, now),
                         ![c].rd = @ \cup {"cache"}]
       ELSE calls' = [calls EXCEPT ![c].pc = "trackRead",
                         ![c].failed = @ \cup {"setCachedTranslation"}]

\* the cache write of setCachedTranslation completes (a rejected write is
\* caught); translate calls trackQuotaUsage
TranslateCacheWrite(c, ioOk) ==
    /\ calls[c].pc = "cacheWrite"
    /\ cacheStore' = IF ioOk THEN calls[c].cache ELSE cacheStore
    /\ calls' = [calls EXCEPT ![c].pc = "trackRead", ![c].cache = <<>>,
                    ![c].wr = IF ioOk THEN @ \cup {"cache"} ELSE @,
                    ![c].failed = IF ioOk THEN @ ELSE @ \cup {"setCachedTranslation"}]
    /\ UNCHANGED <<now, apiStore, defaultCfg, setter, mgr, detector, replies, served, breaker, history>>

\* the config read of trackQuotaUsage completes: the config object is updated
\* in place (DEFAULT_API_CONFIG itself when that is what getAPIConfig
\* returned) and handed to setAPIConfig
TranslateTrackRead(c, ioOk) ==
    /\ calls[c].pc = "trackRead"
    /\ LET got == getAPIConfig(apiStore, defaultCfg, ioOk)
           config == trackQuotaUsage(got.config, Len(calls[c].text), now)
       IN  /\ defaultCfg' = IF got.aliased THEN config ELSE defaultCfg
           /\ calls' = [calls EXCEPT ![c].pc = "trackWrite",
                           ![c].config = <<config>>,
                           ![c].aliased = got.aliased,
                           ![c].rd = @ \cup {"api"},
                           ![c].failed = IF ioOk THEN @ ELSE @ \cup {"trackQuotaUsage"},
                           ![c].before = <<Persisted>>]
    /\ UNCHANGED <<now, cacheStore, apiStore, setter, mgr, detector, replies, served, breaker, history>>

\* the config write of trackQuotaUsage completes (a rejected write is caught
\* by trackQuotaUsage); translate resets failureCount and returns
TranslateTrackWrite(c, ioOk) ==
    /\ calls[c].pc = "trackWrite"
    /\ apiStore' = IF ~ioOk THEN apiStore
                   ELSE IF calls[c].aliased THEN <<defaultCfg>>
                   ELSE calls[c].config
    /\ failureCount' = 0
    /\ streak' = AfterSuccess(0, circuitOpen)
    /\ calls' = [calls EXCEPT ![c].pc = "done", ![c].config = <<>>,
                    ![c].aliased = FALSE,
                    ![c].before = <<>>,
                    ![c].res = Success(calls[c].translation, FALSE),
                    ![c].wr = IF ioOk THEN @ \cup {"api"} ELSE @,
                    ![c].failed = IF ioOk THEN @ ELSE @ \cup {"trackQuotaUsage"}]
    /\ UNCHANGED <<now, cacheStore, defaultCfg, setter, mgr, detector, replies, served, circuitOpen,
                   timers, openFor, lastClose>>

\* the caller has taken the result or the error
TranslateReturn(c) ==
    /\ calls[c].pc = "done"
    /\ calls' = [calls EXCEPT ![c] = IdleCall]
    /\ UNCHANGED <<now, storage, setter, mgr, detector, replies, served, breaker, history>>

----------------------------------------------------------------------------
(* Timers, reset(), the wall clock *)

Minus(a, b) == IF a > b THEN a - b ELSE 0

\* TickMs pass on the timer clock
TimerTick ==
    /\ timers' = [i \in 1..Len(timers) |-> Minus(timers[i], TickMs)]
    /\ calls' = [c \in Calls |-> [calls[c] EXCEPT !.sleep = Minus(@, TickMs)]]
    /\ openFor' = IF ~circuitOpen THEN openFor
                  ELSE IF openFor + TickMs > TIMEOUT_MS THEN TIMEOUT_MS
                  ELSE openFor + TickMs
    /\ UNCHANGED <<failureCount, circuitOpen, now, storage, setter, mgr, detector, replies, served, streak,
                   lastClose>>

\* the callback handleError gave to setTimeout runs
\* mutant: the callback closes the breaker and leaves the counter
TimerFire_KeepCount ==
    /\ timers # <<>>
    /\ Head(timers) = 0
    /\ timers' = Tail(timers)
    /\ circuitOpen' = FALSE
    /\ failureCount' = failureCount
    /\ streak' = 0
    /\ lastClose' = "timer"
    /\ UNCHANGED <<now, storage, setter, mgr, detector, replies, served, calls, openFor>>

TimerFire ==
    /\ timers # <<>>
    /\ Head(timers) = 0
    /\ timers' = Tail(timers)
    /\ circuitOpen' = FALSE
    /\ failureCount' = 0
    /\ streak' = 0
    /\ lastClose' = "timer"
    /\ UNCHANGED <<now, storage, setter, mgr, detector, replies, served, calls, openFor>>

\* reset()
Reset ==
    /\ circuitOpen' = FALSE
    /\ failureCount' = 0
    /\ streak' = 0
    /\ lastClose' = "reset"
    /\ UNCHANGED <<now, storage, setter, mgr, detector, replies, served, calls, timers, openFor>>

\* the wall clock moves on
AdvanceClock ==
    /\ now < MaxNow
    /\ now' = now + ClockStepMs
    /\ UNCHANGED <<breaker, storage, setter, mgr, detector, replies, served, calls, history>>

----------------------------------------------------------------------------
(* StorageManager operations called on their own, one at a time.  Each      *)
(* action is one whole call: its storage read, its computation at           *)
(* Date.now() = now, and its storage write.                                 *)

\* getCachedTranslation(text, fromLang, toLang); ioOk: the cache read completes
CallGetCachedTranslation(text, fromLang, toLang, ioOk) ==
    /\ AllIdle
    /\ mgr' = [mgr EXCEPT !.name = "getCachedTranslation", !.text = text,
                  !.fromLang = fromLang, !.toLang = toLang, !.translation = "",
                  !.n = 0, !.at = now, !.ok = ioOk, !.quota = <<>>,
                  !.cached = getCachedTranslation(cacheStore, text, fromLang,
                                                  toLang, now, ioOk)]
    /\ UNCHANGED <<now, storage, calls, setter, detector, replies, served, breaker, history>>

\* setCachedTranslation(text, fromLang, toLang, translation); a rejected read
\* or write is caught and logged, and nothing is stored
CallSetCachedTranslation(text, fromLang, toLang, translation, ioRead, ioWrite) ==
    /\ AllIdle
    /\ mgr.writes < MaxWrites
    /\ cacheStore' = IF ioRead /\ ioWrite
                     THEN setCachedTranslation(cacheStore, text, fromLang, toLang,
                                               translation, now)
                     ELSE cacheStore
    /\ mgr' = [mgr EXCEPT !.name = "setCachedTranslation", !.text = text,
                  !.fromLang = fromLang, !.toLang = toLang,
                  !.translation = translation, !.n = 0, !.at = now,
                  !.ok = ioRead /\ ioWrite, !.cached = Null, !.quota = <<>>,
                  !.triples = IF ioRead /\ ioWrite
                              THEN @ \cup {<<text, fromLang, toLang>>} ELSE @,
                  !.writes = @ + 1]
    /\ UNCHANGED <<now, apiStore, defaultCfg, calls, setter, detector, replies, served, breaker,
                   history>>

\* getQuotaStatus(): getAPIConfig answers DEFAULT_API_CONFIG when its read
\* rejects, so a status is always returned
CallGetQuotaStatus(ioOk) ==
    /\ AllIdle
    /\ mgr' = [mgr EXCEPT !.name = "getQuotaStatus", !.text = <<>>,
                  !.fromLang = <<>>, !.toLang = <<>>, !.translation = "",
                  !.n = 0, !.at = now, !.ok = ioOk, !.cached = Null,
                  !.quota = <<getQuotaStatus(
                                getAPIConfig(apiStore, defaultCfg, ioOk).config,
                                now)>>]
    /\ UNCHANGED <<now, storage, calls, setter, detector, replies, served, breaker, history>>

\* trackQuotaUsage(characterCount): the config object read is updated in place
\* (DEFAULT_API_CONFIG itself when that is what getAPIConfig returned) and
\* written; a rejected write is caught and null is returned
CallTrackQuotaUsage(characterCount, ioRead, ioWrite) ==
    /\ AllIdle
    /\ mgr.writes < MaxWrites
    /\ LET got == getAPIConfig(apiStore, defaultCfg, ioRead)
           config == trackQuotaUsage(got.config, characterCount, now)
       IN  /\ defaultCfg' = IF got.aliased THEN config ELSE defaultCfg
           /\ apiStore' = IF ioWrite THEN <<config>> ELSE apiStore
           /\ mgr' = [mgr EXCEPT !.name = "trackQuotaUsage", !.text = <<>>,
                         !.fromLang = <<>>, !.toLang = <<>>, !.translation = "",
                         !.n = characterCount, !.at = now,
                         !.ok = ioRead /\ ioWrite, !.cached = Null,
                         !.quota = IF ioWrite
                                   THEN <<[used |-> config.dailyQuotaUsed,
                                           max |-> config.maxDailyQuota]>>
                                   ELSE <<>>,
                         !.writes = @ + 1]
    /\ UNCHANGED <<now, cacheStore, calls, setter, detector, replies, served, breaker, history>>

----------------------------------------------------------------------------
(* setAPIKey(apiKey) *)

\* generateSalt and encryptAPIKey; a failing encryption is rethrown
SetAPIKeyBegin(apiKey, salt, cryptoOk) ==
    /\ setter.pc = "idle"
    /\ setter' = IF cryptoOk
                 THEN [setter EXCEPT !.pc = "read", !.apiKey = apiKey, !.salt = salt]
                 ELSE [setter EXCEPT !.pc = "done", !.ok = FALSE]
    /\ UNCHANGED <<now, storage, calls, mgr, detector, replies, served, breaker, history>>

\* the config read completes: key and salt are set in the config object
SetAPIKeyRead(ioOk) ==
    /\ setter.pc = "read"
    /\ LET got == getAPIConfig(apiStore, defaultCfg, ioOk)
           config == [got.config EXCEPT
                          !.googleTranslateKey = encryptAPIKey(setter.apiKey, setter.salt),
                          !.encryptionSalt = setter.salt]
       IN  /\ defaultCfg' = IF got.aliased THEN config ELSE defaultCfg
           /\ setter' = [setter EXCEPT !.pc = "write", !.config = <<config>>,
                                       !.aliased = got.aliased]
    /\ UNCHANGED <<now, cacheStore, apiStore, calls, mgr, detector, replies, served, breaker, history>>

\* the config write completes, or is rejected and rethrown
SetAPIKeyWrite(ioOk) ==
    /\ setter.pc = "write"
    /\ apiStore' = IF ~ioOk THEN apiStore
                   ELSE IF setter.aliased THEN <<defaultCfg>>
                   ELSE setter.config
    /\ setter' = [setter EXCEPT !.pc = "done", !.config = <<>>,
                                !.aliased = FALSE, !.ok = ioOk]
    /\ UNCHANGED <<now, cacheStore, defaultCfg, calls, mgr, detector, replies, served, breaker, history>>

SetAPIKeyReturn ==
    /\ setter.pc = "done"
    /\ setter' = IdleSetter
    /\ UNCHANGED <<now, storage, calls, mgr, detector, replies, served, breaker, history>>

----------------------------------------------------------------------------

(* The program under an environment e: the calls that may be made        *)
(* (e.calls, e.texts, e.langs, overlapping or one at a time), what the    *)
(* provider answers (e.responses), whether storage and crypto operations  *)
(* may fail (e.io, e.crypto), and the keys given to setAPIKey (e.keys,    *)
(* e.salts: what generateSalt draws).                                     *)

TranslateNext(e) ==
    \/ \E c \in e.calls, text \in e.texts, langs \in e.langs :
           /\ e.overlap \/ AllIdle
           /\ TranslateBegin(c, text, langs)
    \/ \E c \in e.calls, ioOk \in e.io : TranslateCacheLookup(c, ioOk)
    \/ \E c \in e.calls, ioOk \in e.io, cryptoOk \in e.crypto :
           TranslateGetAPIKey(c, ioOk, cryptoOk)
    \/ \E c \in e.calls, ioOk \in e.io : TranslateCheckQuota(c, ioOk)
    \/ \E c \in e.calls, resp \in e.responses :
           /\ resp.kind = "ok" => served < MaxServed
           /\ TranslateFetch(c, resp)
    \/ \E c \in e.calls : TranslateRetry(c)
    \/ \E c \in e.calls, ioOk \in e.io : TranslateCacheRead(c, ioOk)
    \/ \E c \in e.calls, ioOk \in e.io : TranslateCacheWrite(c, ioOk)
    \/ \E c \in e.calls, ioOk \in e.io : TranslateTrackRead(c, ioOk)
    \/ \E c \in e.calls, ioOk \in e.io : TranslateTrackWrite(c, ioOk)
    \/ \E c \in e.calls : TranslateReturn(c)

SetAPIKeyNext(e) ==
    \/ \E k \in e.keys, s \in e.salts, cryptoOk \in e.crypto :
           /\ e.overlap \/ AllIdle
           /\ SetAPIKeyBegin(k, s, cryptoOk)
    \/ \E ioOk \in e.io : SetAPIKeyRead(ioOk)
    \/ \E ioOk \in e.io : SetAPIKeyWrite(ioOk)
    \/ SetAPIKeyReturn

Hello == <<72, 101, 108, 108, 111>>
En == <<101, 110>>
Es == <<101, 115>>

Hi == <<60, 98, 62, 72, 105, 60, 47, 98, 62>>

\* One translate call at a time against the circuit breaker: every kind of
\* response, the breaker's timers and reset(); storage operations succeed
SeqEnv ==
    [calls |-> {1}, overlap |-> FALSE, texts |-> {Hello, <<>>},
     langs |-> {<<En, Es>>}, responses |-> Responses,
     io |-> {TRUE}, crypto |-> {TRUE}, keys |-> ApiKeys, salts |-> Salts]

\* Overlapping translate calls against the circuit breaker
RaceEnv == [SeqEnv EXCEPT !.calls = Calls, !.overlap = TRUE]

\* One operation at a time against the store: translate and setAPIKey with
\* failing storage and crypto operations, and the wall clock
StoreEnv ==
    [calls |-> {1}, overlap |-> FALSE, texts |-> {Hello, Hi, <<>>, <<32>>},
     langs |-> {<<En, Es>>},
     responses |-> {r \in Responses : r.kind = "ok" \/ r.status \in {400, 429}},
     io |-> BOOLEAN, crypto |-> BOOLEAN, keys |-> {"AIzaB"}, salts |-> {"s2"}]

Next ==
    \/ TranslateNext(SeqEnv)
    \/ TimerTick
    \/ TimerFire
    \/ Reset

Spec == Init /\ [][Next]_vars

----------------------------------------------------------------------------
(* Circuit breaker *)

InFlight(c) == calls[c].pc \notin {"idle", "done"}

\* C1: starting from a closed breaker with failureCount 0, the breaker is
\* still closed after 1 to 4 translate calls have failed in a row, and it is
\* open once the 5th has failed.
C1_OpensAtFifthFailure ==
    /\ streak \in 1..(THRESHOLD - 1) => ~circuitOpen
    /\ streak >= THRESHOLD => circuitOpen

C1_Witness == streak = THRESHOLD /\ circuitOpen

\* C2: a translate call that starts while the breaker is open ends at once
\* with RATE_LIMIT, retryable, having read no storage and sent no request, and
\* the step changes neither storage nor the breaker.
C2_OpenBreakerFailsFast ==
    [][\A c \in Calls :
          (circuitOpen /\ calls[c].pc = "idle" /\ calls'[c].pc # "idle")
              => /\ calls'[c].pc = "done"
                 /\ ~calls'[c].res.ok
                 /\ calls'[c].res.code = RATE_LIMIT
                 /\ calls'[c].res.retryable
                 /\ calls'[c].reqs = 0
                 /\ calls'[c].rd = {}
                 /\ calls'[c].wr = {}
                 /\ UNCHANGED <<storage, breaker>>]_vars

C2_Witness ==
    \E c \in Calls :
        /\ circuitOpen
        /\ calls[c].pc = "done"
        /\ calls[c].res.code = RATE_LIMIT
        /\ calls[c].reqs = 0

\* C3: the breaker never goes from open to closed, other than by reset(),
\* before TIMEOUT_MS have passed since it last went from closed to open.
C3_NoEarlyClose ==
    [][(circuitOpen /\ ~circuitOpen' /\ lastClose' # "reset")
          => openFor >= TIMEOUT_MS]_vars

\* C5: when a translate call returns successfully, from the network or from
\* the cache, failureCount is 0.
C5_SuccessResetsCounter ==
    [][\A c \in Calls :
          (calls[c].pc # "done" /\ calls'[c].pc = "done" /\ calls'[c].res.ok)
              => failureCount' = 0]_vars

\* C6: a call rejected because the breaker is open or because the sanitized
\* text is empty (it ends before its first await) leaves failureCount and
\* circuitOpen unchanged.
C6_EarlyRejectionNotRecorded ==
    [][\A c \in Calls :
          (calls[c].pc = "idle" /\ calls'[c].pc = "done")
              => UNCHANGED <<failureCount, circuitOpen>>]_vars

\* overlapping calls, without reset() (which nothing in the repository calls)
RaceNext ==
    \/ TranslateNext(RaceEnv)
    \/ TimerTick
    \/ TimerFire

RaceSpec == Init /\ [][RaceNext]_vars

StoreNext ==
    \/ TranslateNext(StoreEnv)
    \/ SetAPIKeyNext(StoreEnv)
    \/ AdvanceClock
    \/ TimerTick

StoreSpec == Init /\ [][StoreNext]_vars

\* C4: an open breaker eventually closes with failureCount 0, by its timer
\* alone; a call begun while the breaker is closed is attempted (it is not
\* rejected for the breaker), and its success leaves a closed breaker with
\* failureCount 0 so.
C4_EventuallyCloses ==
    /\ circuitOpen ~> (~circuitOpen /\ failureCount = 0)
    /\ [][\A c \in Calls :
            (~circuitOpen /\ calls[c].pc = "idle" /\ calls'[c].pc = "done")
                => calls'[c].res.code # RATE_LIMIT]_vars
    /\ [][\A c \in Calls :
            (/\ ~circuitOpen /\ failureCount = 0
             /\ calls[c].pc # "done" /\ calls'[c].pc = "done" /\ calls'[c].res.ok)
                => ~circuitOpen' /\ failureCount' = 0]_vars

C4_Witness ==
    /\ lastClose = "timer"
    /\ ~circuitOpen
    /\ failureCount = 0
    /\ \E c \in Calls : calls[c].pc = "done" /\ calls[c].res.ok

\* the runtime runs a due timer callback, and time passes
LiveSpec == Spec /\ WF_vars(TimerTick) /\ WF_vars(TimerFire)

----------------------------------------------------------------------------
(* Cache, credential and quota in translate *)

\* C7: when the cache read of translate succeeds and the cache holds a
\* non-expired entry for the sanitized (text, fromLang, toLang), translate
\* returns that entry's translation with fromCache = true, having sent no
\* request and read no API configuration (credential, quota), and leaves the
\* persisted cache and configuration unchanged.
C7_CacheHitBypasses ==
    [][\A c \in Calls :
          LET i == CacheIndex(cacheStore, generateCacheKey(calls[c].text,
                       calls[c].fromLang, calls[c].toLang))
          IN  (/\ calls[c].pc = "cacheLookup"
               /\ calls'[c].pc # "cacheLookup"
               /\ "getCachedTranslation" \notin calls'[c].failed
               /\ i # 0
               /\ ~isExpired(cacheStore[i].timestamp, TTL_MS, now))
                  => /\ calls'[c].pc = "done"
                     /\ calls'[c].res.ok
                     /\ calls'[c].res.fromCache
                     /\ calls'[c].res.translatedText = cacheStore[i].translation
                     /\ calls'[c].reqs = 0
                     /\ "api" \notin calls'[c].rd
                     /\ calls'[c].wr = {}
                     /\ UNCHANGED storage]_vars

\* C8 as stated: a translate call that missed the cache and whose API call
\* succeeded returns the provider's text with fromCache = false, and when it
\* returns the cache holds an entry for the sanitized (text, fromLang, toLang)
\* with that translation, and the persisted used quota (of the day persisted
\* with it, counted from 0 when that day is new) is the one persisted before
\* plus the length of the sanitized text.
C8_SuccessIsPersisted ==
    [][\A c \in Calls :
          (calls[c].pc = "trackWrite" /\ calls'[c].pc = "done")
              => LET i == CacheIndex(cacheStore', generateCacheKey(calls[c].text,
                              calls[c].fromLang, calls[c].toLang))
                     before == calls[c].before[1]
                     after == getAPIConfig(apiStore', defaultCfg', TRUE).config
                     usedBefore == IF before.quotaResetDate = after.quotaResetDate
                                   THEN before.dailyQuotaUsed ELSE 0
                 IN  /\ calls'[c].res.ok
                     /\ ~calls'[c].res.fromCache
                     /\ calls'[c].res.translatedText = calls[c].translation
                     /\ i # 0
                     /\ cacheStore'[i].translation = calls[c].translation
                     /\ after.dailyQuotaUsed = usedBefore + Len(calls[c].text)]_vars

\* C8 amended: the same, for a call made while no other operation is in
\* progress and in whose setCachedTranslation and trackQuotaUsage no storage
\* operation was rejected.
C8_SuccessIsPersistedWhenStored ==
    [][\A c \in Calls :
          (/\ calls[c].pc = "trackWrite"
           /\ calls'[c].pc = "done"
           /\ calls'[c].failed \cap {"setCachedTranslation", "trackQuotaUsage"} = {})
              => LET i == CacheIndex(cacheStore', generateCacheKey(calls[c].text,
                              calls[c].fromLang, calls[c].toLang))
                     before == calls[c].before[1]
                     after == getAPIConfig(apiStore', defaultCfg', TRUE).config
                     usedBefore == IF before.quotaResetDate = after.quotaResetDate
                                   THEN before.dailyQuotaUsed ELSE 0
                 IN  /\ calls'[c].res.ok
                     /\ ~calls'[c].res.fromCache
                     /\ calls'[c].res.translatedText = calls[c].translation
                     /\ i # 0
                     /\ cacheStore'[i].translation = calls[c].translation
                     /\ after.dailyQuotaUsed = usedBefore + Len(calls[c].text)]_vars

C8_Witness ==
    \E c \in Calls :
        /\ calls[c].pc = "done"
        /\ calls[c].res.ok
        /\ ~calls[c].res.fromCache
        /\ calls[c].text = Hello
        /\ calls[c].failed = {}
        /\ calls[c].wr = {"cache", "api"}
        /\ cacheStore # <<>>
        /\ apiStore # <<>>
        /\ apiStore[1].dailyQuotaUsed = (maxDailyQuota - 3) + 5

\* C9 as stated: with one operation at a time, no translate request is issued
\* while the current day's used quota is at or above the maximum; the call
\* whose quota check runs in such a state ends with QUOTA_EXCEEDED, not
\* retryable, having sent no request.
C9_NoRequestOverQuota ==
    [][\A c \in Calls :
          LET q == getQuotaStatus(Persisted, now)
          IN  /\ (calls'[c].reqs > calls[c].reqs) => q.used < q.max
              /\ (/\ calls[c].pc = "getQuotaStatus"
                  /\ calls'[c].pc # "getQuotaStatus"
                  /\ q.used >= q.max)
                     => /\ calls'[c].pc = "done"
                        /\ calls'[c].res.code = QUOTA_EXCEEDED
                        /\ ~calls'[c].res.retryable
                        /\ calls'[c].reqs = 0]_vars

\* C9 amended: the same for every call whose quota read was not rejected.
C9_NoRequestOverQuotaRead ==
    [][\A c \in Calls :
          LET q == getQuotaStatus(Persisted, now)
          IN  "getQuotaStatus" \notin calls'[c].failed
                  => /\ (calls'[c].reqs > calls[c].reqs) => q.used < q.max
                     /\ (/\ calls[c].pc = "getQuotaStatus"
                         /\ calls'[c].pc # "getQuotaStatus"
                         /\ q.used >= q.max)
                            => /\ calls'[c].pc = "done"
                               /\ calls'[c].res.code = QUOTA_EXCEEDED
                               /\ ~calls'[c].res.retryable
                               /\ calls'[c].reqs = 0]_vars

C9_Witness ==
    \E c \in Calls :
        /\ calls[c].pc = "done"
        /\ calls[c].res.code = QUOTA_EXCEEDED
        /\ calls[c].reqs = 0
        /\ "getQuotaStatus" \notin calls[c].failed
        /\ getQuotaStatus(Persisted, now).used >= maxDailyQuota

\* C10: a call that missed the cache while no credential is stored, or whose
\* credential read or decryption was rejected, ends with API_KEY_MISSING, not
\* retryable, having sent no request and written neither cache nor quota.
C10_NoCredentialFails ==
    [][\A c \in Calls :
          (/\ calls[c].pc = "getAPIKey"
           /\ calls'[c].pc # "getAPIKey"
           /\ \/ apiStore = <<>>
              \/ ~apiStore[1].googleTranslateKey.encrypted
              \/ "getAPIKey" \in calls'[c].failed)
              => /\ calls'[c].pc = "done"
                 /\ calls'[c].res.code = API_KEY_MISSING
                 /\ ~calls'[c].res.retryable
                 /\ calls'[c].reqs = 0
                 /\ calls'[c].wr = {}
                 /\ UNCHANGED <<cacheStore, apiStore>>]_vars

----------------------------------------------------------------------------
(* Retry and error classification *)

\* C11: a call makes at most 3 network attempts; a failed attempt is either
\* propagated or followed by a wait of 1000 ms after attempt 1 and 2000 ms
\* after attempt 2, and a 429 or 500 answer to attempt 1 or 2 is so followed;
\* the next attempt is made only when the wait is over; a failure of attempt
\* 3 is propagated.
C11_AtMostThreeAttempts ==
    /\ [](\A c \in Calls : calls[c].reqs <= 3 /\ calls[c].attempt <= 3)
    /\ [][\A c \in Calls :
            (calls[c].pc = "fetch" /\ calls'[c].pc \notin {"fetch", "cacheRead"})
                => /\ calls'[c].pc \in {"sleep", "done"}
                   /\ calls'[c].pc = "sleep"
                          => /\ calls[c].attempt < 3
                             /\ calls'[c].sleep
                                    = (IF calls[c].attempt = 1 THEN 1000 ELSE 2000)
                   /\ calls'[c].pc = "done" => ~calls'[c].res.ok
                   /\ calls[c].attempt = 3 => calls'[c].pc = "done"
                   /\ (/\ calls[c].attempt < 3
                       /\ calls'[c].answer.kind = "status"
                       /\ calls'[c].answer.status \in {429, 500})
                          => calls'[c].pc = "sleep"]_vars
    /\ [][\A c \in Calls :
            (calls[c].pc = "sleep" /\ calls'[c].pc # "sleep")
                => /\ calls[c].sleep = 0
                   /\ calls'[c].pc = "fetch"
                   /\ calls'[c].attempt = calls[c].attempt + 1
                   /\ calls'[c].reqs = calls[c].reqs + 1]_vars

C11_Witness ==
    \E c \in Calls :
        /\ calls[c].pc = "done"
        /\ ~calls[c].res.ok
        /\ calls[c].reqs = 3
        /\ calls[c].answer.kind = "status"
        /\ calls[c].answer.status = 429

\* C12: a request that fails without an HTTP status on attempt 1 or 2 is
\* followed by another attempt after the back-off delay.
C12_NetworkErrorRetried ==
    [][\A c \in Calls :
          (/\ calls[c].pc = "fetch"
           /\ calls'[c].pc # "fetch"
           /\ calls'[c].answer.kind = "rejected"
           /\ calls[c].attempt < 3)
              => /\ calls'[c].pc = "sleep"
                 /\ calls'[c].sleep = (IF calls[c].attempt = 1 THEN 1000 ELSE 2000)]_vars

\* C13: a failed attempt whose error code is neither NETWORK_ERROR nor
\* RATE_LIMIT is not retried: the call ends with that error.
C13_OnlyNetworkAndRateLimitRetried ==
    [][\A c \in Calls :
          (/\ calls[c].pc = "fetch"
           /\ calls'[c].pc # "fetch"
           /\ calls'[c].answer.kind \in {"status", "malformed"}
           /\ ResponseError(calls'[c].answer).code \notin {NETWORK_ERROR, RATE_LIMIT})
              => /\ calls'[c].pc = "done"
                 /\ ~calls'[c].res.ok
                 /\ calls'[c].res.code = ResponseError(calls'[c].answer).code
                 /\ calls'[c].reqs = calls[c].reqs]_vars

\* C14: an attempt answered with a non-OK status ends, when it ends the call,
\* with 400 -> (INVALID_LANGUAGE, false), 401 and 403 -> (API_KEY_INVALID,
\* false), 429 -> (RATE_LIMIT, true), 500..599 -> (NETWORK_ERROR, true), any
\* other status -> (TRANSLATION_FAILED, false); it is retried only when that
\* flag is true.
C14_StatusClassification ==
    [][\A c \in Calls :
          (/\ calls[c].pc = "fetch"
           /\ calls'[c].pc # "fetch"
           /\ calls'[c].answer.kind = "status")
              => LET status == calls'[c].answer.status
                     code == CASE status = 400 -> INVALID_LANGUAGE
                               [] status \in {401, 403} -> API_KEY_INVALID
                               [] status = 429 -> RATE_LIMIT
                               [] status \in 500..599 -> NETWORK_ERROR
                               [] OTHER -> TRANSLATION_FAILED
                     retryable == status = 429 \/ status \in 500..599
                 IN  /\ calls'[c].pc = "done"
                            => /\ calls'[c].res.code = code
                               /\ calls'[c].res.retryable = retryable
                     /\ calls'[c].pc = "sleep" => retryable]_vars

\* C15: every error translate propagates carries one of the nine error codes
\* and a boolean retryable flag.
C15_PropagatedErrorsAreTyped ==
    \A c \in Calls :
        (calls[c].pc = "done" /\ ~calls[c].res.ok)
            => /\ calls[c].res.code \in ERROR_CODES
               /\ calls[c].res.retryable \in BOOLEAN

----------------------------------------------------------------------------
(* StorageManager: cache fingerprint, expiry and quota rollover *)

Aa == <<65, 97>>
BB == <<66, 66>>

\* the direct calls of one behaviour: two texts, both directions, storage
\* operations that complete or reject, and the wall clock
MgrNext ==
    \/ \E text \in {Aa, BB}, lp \in LangPairs, ioOk \in BOOLEAN :
           CallGetCachedTranslation(text, lp[1], lp[2], ioOk)
    \/ \E text \in {Aa, BB}, lp \in LangPairs, translation \in Translations,
          ioRead \in BOOLEAN, ioWrite \in BOOLEAN :
           CallSetCachedTranslation(text, lp[1], lp[2], translation, ioRead,
                                    ioWrite)
    \/ \E ioOk \in BOOLEAN : CallGetQuotaStatus(ioOk)
    \/ \E characterCount \in {2, 5}, ioRead \in BOOLEAN, ioWrite \in BOOLEAN :
           CallTrackQuotaUsage(characterCount, ioRead, ioWrite)
    \/ AdvanceClock

MgrSpec == Init /\ [][MgrNext]_vars

\* C16: getCachedTranslation(t, f, l) right after a setCachedTranslation(t, f,
\* l, x) returns x, and getCachedTranslation for a triple that differs from
\* every triple stored returns absent.
C16_CacheKeyedByTriple ==
    [][(mgr'.name = "getCachedTranslation" /\ mgr'.ok /\ now' = now)
          => LET triple == <<mgr'.text, mgr'.fromLang, mgr'.toLang>>
             IN  /\ (/\ mgr.name = "setCachedTranslation"
                     /\ mgr.ok
                     /\ mgr.at = now
                     /\ <<mgr.text, mgr.fromLang, mgr.toLang>> = triple)
                        => mgr'.cached = mgr.translation
                 /\ triple \notin mgr.triples => mgr'.cached = Null]_vars

\* C18 (as stated): getCachedTranslation answers absent for an entry older
\* than 24 h, answers the translation of an entry of age at most 24 h, and
\* never removes or modifies a stored entry.
C18_ExpiredEntryIsAbsent ==
    [][(mgr'.name = "getCachedTranslation" /\ now' = now)
          => LET key == generateCacheKey(mgr'.text, mgr'.fromLang, mgr'.toLang)
                 i == CacheIndex(cacheStore, key)
             IN  /\ cacheStore' = cacheStore
                 /\ (i # 0 /\ now - cacheStore[i].timestamp > 24 * 60 * 60 * 1000)
                        => mgr'.cached = Null
                 /\ (i # 0 /\ now - cacheStore[i].timestamp <= 24 * 60 * 60 * 1000)
                        => mgr'.cached = cacheStore[i].translation]_vars

\* C18 (amended): the same, the entry of age at most 24 h being answered when
\* the storage read of the call completes (a rejected read answers absent).
C18_ExpiredEntryIsAbsentOnRead ==
    [][(mgr'.name = "getCachedTranslation" /\ now' = now)
          => LET key == generateCacheKey(mgr'.text, mgr'.fromLang, mgr'.toLang)
                 i == CacheIndex(cacheStore, key)
             IN  /\ cacheStore' = cacheStore
                 /\ (i # 0 /\ now - cacheStore[i].timestamp > 24 * 60 * 60 * 1000)
                        => mgr'.cached = Null
                 /\ (/\ i # 0
                     /\ now - cacheStore[i].timestamp <= 24 * 60 * 60 * 1000
                     /\ mgr'.ok)
                        => mgr'.cached = cacheStore[i].translation]_vars

\* a completed read of an entry written two days earlier answered absent,
\* the entry still stored
C18_Witness ==
    /\ mgr.name = "getCachedTranslation"
    /\ mgr.ok
    /\ mgr.at = now
    /\ mgr.cached = Null
    /\ \E i \in 1..Len(cacheStore) :
           /\ cacheStore[i].key
                  = generateCacheKey(mgr.text, mgr.fromLang, mgr.toLang)
           /\ now - cacheStore[i].timestamp = 2 * 24 * 60 * 60 * 1000

\* C19 (as stated): getQuotaStatus writes nothing to storage; with a stored
\* configuration whose resetDate is not today it reports used = 0 and the
\* stored max, and with one whose resetDate is today it reports the stored
\* count.
C19_QuotaStatusReadOnly ==
    [][(mgr'.name = "getQuotaStatus" /\ now' = now)
          => /\ UNCHANGED <<cacheStore, apiStore>>
             /\ (apiStore # <<>> /\ apiStore[1].quotaResetDate # Today(now))
                    => /\ mgr'.quota[1].used = 0
                       /\ mgr'.quota[1].max = apiStore[1].maxDailyQuota
             /\ (apiStore # <<>> /\ apiStore[1].quotaResetDate = Today(now))
                    => mgr'.quota[1].used = apiStore[1].dailyQuotaUsed]_vars

\* C19 (amended): the same, the reported values being those of the stored
\* configuration when the storage read of the call completes (a rejected
\* read is answered from DEFAULT_API_CONFIG).
C19_QuotaStatusReadOnlyOnRead ==
    [][(mgr'.name = "getQuotaStatus" /\ now' = now)
          => /\ UNCHANGED <<cacheStore, apiStore>>
             /\ (/\ apiStore # <<>>
                 /\ apiStore[1].quotaResetDate # Today(now)
                 /\ mgr'.ok)
                    => /\ mgr'.quota[1].used = 0
                       /\ mgr'.quota[1].max = apiStore[1].maxDailyQuota
             /\ (/\ apiStore # <<>>
                 /\ apiStore[1].quotaResetDate = Today(now)
                 /\ mgr'.ok)
                    => mgr'.quota[1].used = apiStore[1].dailyQuotaUsed]_vars

\* a status read on a later day than the stored resetDate reported 0 while
\* the stored count is still positive
C19_Witness ==
    /\ mgr.name = "getQuotaStatus"
    /\ mgr.ok
    /\ mgr.at = now
    /\ apiStore # <<>>
    /\ apiStore[1].quotaResetDate # Today(now)
    /\ apiStore[1].dailyQuotaUsed > 0
    /\ mgr.quota[1].used = 0

\* C20 (as stated): trackQuotaUsage(n) with a stored configuration whose resetDate is not
\* today persists resetDate = today and used = n, with one whose resetDate is
\* today persists used = old + n, and in both cases returns the persisted
\* used value.
C20_TrackPersistsRollover ==
    [][(mgr'.name = "trackQuotaUsage" /\ now' = now /\ apiStore # <<>>)
          => /\ apiStore' # <<>>
             /\ apiStore[1].quotaResetDate # Today(now)
                    => /\ apiStore'[1].quotaResetDate = Today(now)
                       /\ apiStore'[1].dailyQuotaUsed = mgr'.n
             /\ apiStore[1].quotaResetDate = Today(now)
                    => /\ apiStore'[1].quotaResetDate = Today(now)
                       /\ apiStore'[1].dailyQuotaUsed
                              = apiStore[1].dailyQuotaUsed + mgr'.n
             /\ mgr'.quota # <<>>
             /\ mgr'.quota[1].used = apiStore'[1].dailyQuotaUsed]_vars

\* C20 (amended): the same for the calls whose storage read and write both
\* complete (a rejected write persists nothing and null is returned; a
\* rejected read is answered from DEFAULT_API_CONFIG).
C20_TrackPersistsRolloverStored ==
    [][(mgr'.name = "trackQuotaUsage" /\ now' = now /\ apiStore # <<>>
            /\ mgr'.ok)
          => /\ apiStore' # <<>>
             /\ apiStore[1].quotaResetDate # Today(now)
                    => /\ apiStore'[1].quotaResetDate = Today(now)
                       /\ apiStore'[1].dailyQuotaUsed = mgr'.n
             /\ apiStore[1].quotaResetDate = Today(now)
                    => /\ apiStore'[1].quotaResetDate = Today(now)
                       /\ apiStore'[1].dailyQuotaUsed
                              = apiStore[1].dailyQuotaUsed + mgr'.n
             /\ mgr'.quota # <<>>
             /\ mgr'.quota[1].used = apiStore'[1].dailyQuotaUsed]_vars

\* a first trackQuotaUsage on a later day than the stored resetDate, its read
\* and write completed: today and the call's count are persisted and
\* returned
C20_Witness ==
    /\ mgr.name = "trackQuotaUsage"
    /\ mgr.ok
    /\ mgr.at = now
    /\ mgr.writes = 1
    /\ now > 0
    /\ apiStore # <<>>
    /\ apiStore[1].googleTranslateKey.encrypted
    /\ apiStore[1].quotaResetDate = Today(now)
    /\ apiStore[1].dailyQuotaUsed = mgr.n
    /\ mgr.quota[1].used = mgr.n

----------------------------------------------------------------------------
(* StorageManager: eviction from a full cache *)

\* the text of the three decimal digits of i
Digits(i) == <<48 + (i \div 100), 48 + ((i \div 10) % 10), 48 + (i % 10)>>

\* how the write times of a full cache can lie in property order: all
\* entries written on day 0; the first half written again on day 1 (a
\* rewritten entry keeps its place); every second entry written again on
\* day 1; the last tenth first written on day 1
Ages == {"same", "rewritten", "alternating", "ascending"}

Stamp(age, i) ==
    CASE age = "same" -> 0
      [] age = "rewritten" -> IF 2 * i <= MAX_ENTRIES THEN ClockStepMs ELSE 0
      [] age = "alternating" -> (i % 2) * ClockStepMs
      [] age = "ascending" -> IF 10 * i > 9 * MAX_ENTRIES THEN ClockStepMs ELSE 0

\* a cache of MAX_ENTRIES entries, for the texts "000" .. "999" from en to es
FullCache(age) ==
    [i \in 1..MAX_ENTRIES |->
        [key |-> generateCacheKey(Digits(i - 1), En, Es), translation |-> "Hola",
         timestamp |-> Stamp(age, i),
         hits |-> IF Stamp(age, i) = 0 THEN 1 ELSE 2]]

\* a full cache on day 1
EvictInit ==
    /\ failureCount = 0
    /\ circuitOpen = FALSE
    /\ timers = <<>>
    /\ now = ClockStepMs
    /\ cacheStore \in {FullCache(age) : age \in Ages}
    /\ apiStore = <<>>
    /\ defaultCfg = DEFAULT_API_CONFIG(0)
    /\ calls = [c \in Calls |-> IdleCall]
    /\ setter = IdleSetter
    /\ siteStore = [u \in Sites |-> <<>>]
    /\ settingsStore = <<>>
    /\ settingsCache = <<>>
    /\ dets = [d \in Dets |-> IdleDet]
    /\ returned = [u \in Sites |-> <<>>]
    /\ replies = [c \in Calls |-> NoMessage]
    /\ mgr = IdleMgr
    /\ served = 0
    /\ openFor = 0
    /\ streak = 0
    /\ lastClose = "none"

\* cache writes and reads for new texts and for a stored one, and the clock
EvictNext ==
    \/ \E text \in {Hello, Aa, Digits(0)},
          ioRead \in BOOLEAN, ioWrite \in BOOLEAN :
           CallSetCachedTranslation(text, En, Es, "Hola", ioRead, ioWrite)
    \/ \E text \in {Hello, Digits(0)}, ioOk \in BOOLEAN :
           CallGetCachedTranslation(text, En, Es, ioOk)
    \/ AdvanceClock

EvictSpec == EvictInit /\ [][EvictNext]_vars

Entries(cache) == {cache[i] : i \in 1..Len(cache)}

----------------------------------------------------------------------------
(* Quota counter under overlapping operations *)

\* A translate and a setAPIKey that may overlap; every storage and crypto
\* operation completes
KeyEnv ==
    [calls |-> {1}, overlap |-> TRUE, texts |-> {Hello, <<>>},
     langs |-> {<<En, Es>>},
     responses |-> {r \in Responses : r.text = "Hola" \/ r.status \in {400, 429}},
     io |-> {TRUE}, crypto |-> {TRUE}, keys |-> {"AIzaB"}, salts |-> {"s2"}]

KeyNext ==
    \/ TranslateNext(KeyEnv)
    \/ SetAPIKeyNext(KeyEnv)
    \/ AdvanceClock
    \/ TimerTick

KeySpec == Init /\ [][KeyNext]_vars

\* C21: the used quota and the resetDate of a stored configuration change
\* only in the quota write of a translate call whose API translation
\* succeeded; no step of a failed call, of a cache hit, of getQuotaStatus or
\* of setAPIKey changes them.
C21_QuotaChangedOnlyByTracking ==
    [][(/\ apiStore # <<>>
        /\ apiStore' # <<>>
        /\ \/ apiStore'[1].dailyQuotaUsed # apiStore[1].dailyQuotaUsed
           \/ apiStore'[1].quotaResetDate # apiStore[1].quotaResetDate)
          => \E c \in Calls :
                 /\ calls[c].pc = "trackWrite"
                 /\ calls'[c].pc = "done"
                 /\ calls'[c].res.ok
                 /\ ~calls'[c].res.fromCache]_vars

----------------------------------------------------------------------------
(* LanguageDetector.getLanguageWithFallback(url, context) *)

\* DEFAULT_SETTINGS, as far as the detector reads it
DEFAULT_SETTINGS == [defaultChatLanguage |-> Es]

\* what the detection endpoint and response.json() can produce
DetectResponses ==
    [kind : {"ok"}, language : {En, Es}, confidence : {Q(1, 1), Q(1, 2)},
     status : {200}]
        \cup [kind : {"malformed"}, language : {<<>>}, confidence : {Q(0, 1)},
              status : {200}]
        \cup [kind : {"status"}, language : {<<>>}, confidence : {Q(0, 1)},
              status : {400, 429, 500}]
        \cup [kind : {"rejected"}, language : {<<>>}, confidence : {Q(0, 1)},
              status : {0}]

\* mutant: detectLanguage swallows the failure of its request
DetectOutcome_Swallowed(resp) == "ok"

\* the code of the error detectLanguage throws for a response, "ok" when it
\* returns a detection (a rejected fetch and a body without
\* data.detections[0][0] raise errors without a code)
DetectOutcome(resp) ==
    CASE resp.kind = "ok" -> "ok"
      [] resp.kind = "status" -> handleAPIError(resp.status).code
      [] OTHER -> Undefined

\* mutant: the saved detection keeps the method it was detected by
getSavedLanguageForSite_StoredMethod(siteConfig) ==
    IF siteConfig = <<>> \/ siteConfig[1].chatLanguage = <<>> THEN <<>>
    ELSE <<DetectionResult(siteConfig[1].chatLanguage,
               IF siteConfig[1].detectionConfidence = <<>>
               THEN Q(9, 10)
               ELSE siteConfig[1].detectionConfidence[1],
               siteConfig[1].detectionMethod)>>

\* getSavedLanguageForSite on the site configuration read (<<>>: none, or
\* the read was rejected)
getSavedLanguageForSite(siteConfig) ==
    IF siteConfig = <<>> \/ siteConfig[1].chatLanguage = <<>> THEN <<>>
    ELSE <<DetectionResult(siteConfig[1].chatLanguage,
               IF siteConfig[1].detectionConfidence = <<>>
                  \/ siteConfig[1].detectionConfidence = <<Q(0, 1)>>
               THEN Q(9, 10)
               ELSE siteConfig[1].detectionConfidence[1],
               "saved")>>

\* mutant: any result is accepted
Accepted_AnyResult(result) == result # <<>>

\* result && result.confidence >= this.confidenceThreshold
Accepted(result) ==
    result # <<>> /\ QGeq(result[1].confidence, confidenceThreshold)

\* detectChatLanguage from the result of the first strategy on: the result
\* returned and the strategies run.  The strategies read context.messages,
\* context.pageInfo and context.url inside the try block, so each one throws
\* and is skipped when the context is null
detectChatLanguage(context, byHistory) ==
    LET byPage == IF context.given THEN detectByPageMetadata(context.pageInfo)
                  ELSE <<>>
        byURL == IF context.given THEN detectByURL(context.url) ELSE <<>>
    IN  IF Accepted(byHistory)
        THEN [result |-> byHistory, ran |-> <<"messageHistory">>]
        ELSE IF Accepted(byPage)
        THEN [result |-> byPage, ran |-> <<"messageHistory", "pageMetadata">>]
        ELSE IF Accepted(byURL)
        THEN [result |-> byURL,
              ran |-> <<"messageHistory", "pageMetadata", "urlPattern">>]
        ELSE [result |-> <<>>,
              ran |-> <<"messageHistory", "pageMetadata", "urlPattern">>]

\* mutant: the fallback is always the built-in default
Fallback_BuiltIn(settings) ==
    DetectionResult(Es, Q(5, 10), "fallback")

\* the fallback result for the settings getSettings returned
Fallback(settings) ==
    DetectionResult(IF settings.defaultChatLanguage = <<>> THEN Es
                    ELSE settings.defaultChatLanguage,
                    Q(5, 10), "fallback")

\* getLanguageWithFallback once detectByMessageHistory has returned
\* byHistory: the rest of the chain, then saveDetectionForSite for an
\* accepted result, the fallback otherwise (at once when the settings are in
\* StorageManager's cache)
AfterHistory(det, byHistory, cache) ==
    LET chain == detectChatLanguage(det.context, byHistory)
        after == [det EXCEPT !.ran = chain.ran, !.detected = chain.result,
                             !.byHistory = byHistory,
                             !.samples = <<>>, !.i = 0]
    IN  IF Accepted(chain.result) THEN [after EXCEPT !.pc = "saveRead"]
        ELSE IF cache # <<>>
        THEN [after EXCEPT !.pc = "done", !.result = <<Fallback(cache[1])>>]
        ELSE [after EXCEPT !.pc = "settingsRead"]

\* the loop of detectByMessageHistory from sample det.i on: detectLanguage
\* throws DETECTION_FAILED at once for a text that sanitizes to '' (caught,
\* next sample), and otherwise awaits getAPIKey
RECURSIVE NextSample(_, _)
NextSample(det, cache) ==
    IF det.i > Len(det.samples)
    THEN AfterHistory(det, historyResult(det.detections), cache)
    ELSE IF sanitizeText(det.samples[det.i].text, MAX_LENGTH) = <<>>
    THEN NextSample([det EXCEPT !.i = @ + 1,
                                !.outcomes = Append(@, DETECTION_FAILED)], cache)
    ELSE [det EXCEPT !.pc = "detectKey"]

\* getLanguageWithFallback(url, context) is called
LangBegin(d, url, context) ==
    /\ dets[d].pc = "idle"
    /\ dets' = [dets EXCEPT ![d] = [IdleDet EXCEPT !.pc = "savedRead", !.url = url,
                                                   !.context = context]]
    /\ UNCHANGED <<now, storage, calls, setter, mgr, served, breaker, history,
                   siteStore, settingsStore, settingsCache, returned, replies>>

\* the read of getSavedLanguageForSite completes (a rejected read is caught:
\* null).  A saved detection is returned; without one detectChatLanguage
\* starts with detectByMessageHistory, up to its first detectLanguage call
LangSavedRead(d, ioOk) ==
    /\ dets[d].pc = "savedRead"
    /\ LET det == [dets[d] EXCEPT !.rd = @ \cup {"siteConfigs"},
                                  !.rej = IF ioOk THEN @ ELSE @ \cup {"siteConfigs"}]
           saved == getSavedLanguageForSite(IF ioOk THEN siteStore[det.url]
                                            ELSE <<>>)
           context == det.context
           messages == context.messages
       IN  dets' = [dets EXCEPT ![d] =
               IF saved # <<>> THEN [det EXCEPT !.pc = "done", !.result = saved]
               ELSE IF \/ ~context.given
                       \/ messages.kind # "array"
                       \/ messages.list = <<>>
                       \/ FilterThrows(messages.list)
                       \/ sampleMessages(messages.list) = <<>>
               THEN AfterHistory(det, <<>>, settingsCache)
               ELSE NextSample([det EXCEPT
                                    !.samples = sampleMessages(messages.list),
                                    !.i = 1], settingsCache)]
    /\ UNCHANGED <<now, storage, calls, setter, mgr, served, breaker, history,
                   siteStore, settingsStore, settingsCache, returned, replies>>

\* detectLanguage: getAPIKey completes; without a key API_KEY_MISSING is
\* thrown (caught by the loop), with one the request is sent
LangDetectGetAPIKey(d, ioOk, cryptoOk) ==
    /\ dets[d].pc = "detectKey"
    /\ LET det == [dets[d] EXCEPT !.rd = @ \cup {"api"},
                                  !.rej = IF ioOk THEN @ ELSE @ \cup {"api"}]
           config == getAPIConfig(apiStore, defaultCfg, ioOk).config
           apiKey == getAPIKey(config, cryptoOk)
       IN  dets' = [dets EXCEPT ![d] =
               IF apiKey = Null \/ apiKey = ""
               THEN NextSample([det EXCEPT !.i = @ + 1,
                                    !.outcomes = Append(@, API_KEY_MISSING)],
                               settingsCache)
               ELSE [det EXCEPT !.pc = "detectFetch",
                         !.sent = Append(@, sanitizeText(det.samples[det.i].text,
                                                         MAX_LENGTH)),
                         !.open = Append(@, circuitOpen)]]
    /\ UNCHANGED <<now, storage, calls, setter, mgr, served, breaker, history,
                   siteStore, settingsStore, settingsCache, returned, replies>>

\* mutant: the catch of detectLanguage counts the failure as translate's does
LangDetectFetch_Counted(d, resp) ==
    /\ dets[d].pc = "detectFetch"
    /\ LET det == [dets[d] EXCEPT !.i = @ + 1,
                       !.answer = <<resp>>,
                       !.outcomes = Append(@, DetectOutcome(resp)),
                       !.detections =
                           IF resp.kind = "ok"
                           THEN Append(@, [language |-> resp.language,
                                           confidence |-> resp.confidence])
                           ELSE @]
           h == IF resp.kind = "ok"
                THEN [failureCount |-> failureCount, circuitOpen |-> circuitOpen,
                      timers |-> timers]
                ELSE handleError(failureCount, circuitOpen, timers)
       IN  /\ dets' = [dets EXCEPT ![d] = NextSample(det, settingsCache)]
           /\ Len(h.timers) <= MaxTimers
           /\ failureCount' = h.failureCount
           /\ circuitOpen' = h.circuitOpen
           /\ timers' = h.timers
    /\ UNCHANGED <<now, storage, calls, setter, mgr, served, history,
                   siteStore, settingsStore, settingsCache, returned, replies>>

\* detectLanguage: the request is answered; the detection is pushed, or the
\* error is thrown to the loop, which goes on with the next sample
LangDetectFetch(d, resp) ==
    /\ dets[d].pc = "detectFetch"
    /\ LET det == [dets[d] EXCEPT !.i = @ + 1,
                       !.answer = <<resp>>,
                       !.outcomes = Append(@, DetectOutcome(resp)),
                       !.detections =
                           IF resp.kind = "ok"
                           THEN Append(@, [language |-> resp.language,
                                           confidence |-> resp.confidence])
                           ELSE @]
       IN  dets' = [dets EXCEPT ![d] = NextSample(det, settingsCache)]
    /\ UNCHANGED <<now, storage, calls, setter, mgr, served, breaker, history,
                   siteStore, settingsStore, settingsCache, returned, replies>>

\* saveDetectionForSite: getSiteConfig completes (a rejected read is caught:
\* {}), the detection is set in the site configuration
LangSaveRead(d, ioOk) ==
    /\ dets[d].pc = "saveRead"
    /\ dets' = [dets EXCEPT ![d].pc = "saveConfigsRead",
                   ![d].rej = IF ioOk THEN @ ELSE @ \cup {"siteConfigs"},
                   ![d].siteConfig =
                       <<[chatLanguage |-> dets[d].detected[1].language,
                          lastDetected |-> now,
                          detectionConfidence |-> <<dets[d].detected[1].confidence>>,
                          detectionMethod |-> dets[d].detected[1].method]>>]
    /\ UNCHANGED <<now, storage, calls, setter, mgr, served, breaker, history,
                   siteStore, settingsStore, settingsCache, returned, replies>>

\* setSiteConfig: its read completes; a rejected read is rethrown, and
\* caught and logged by saveDetectionForSite
LangSaveConfigsRead(d, ioOk) ==
    /\ dets[d].pc = "saveConfigsRead"
    /\ dets' = [dets EXCEPT ![d] =
           IF ioOk THEN [@ EXCEPT !.pc = "saveWrite", !.configs = <<siteStore>>]
           ELSE [@ EXCEPT !.pc = "done", !.siteConfig = <<>>,
                          !.result = dets[d].detected,
                          !.rej = @ \cup {"siteConfigs"}]]
    /\ returned' = IF ioOk THEN returned
                   ELSE [returned EXCEPT ![dets[d].url] =
                                             <<dets[d].detected[1].language>>]
    /\ UNCHANGED <<now, storage, calls, setter, mgr, served, breaker, history,
                   siteStore, settingsStore, settingsCache, replies>>

\* setSiteConfig: the write of the configurations read, with this site's
\* set, completes or is rejected (caught and logged); the detection is
\* returned
LangSaveWrite(d, ioOk) ==
    /\ dets[d].pc = "saveWrite"
    /\ siteStore' = IF ioOk
                    THEN [dets[d].configs[1] EXCEPT ![dets[d].url] = dets[d].siteConfig]
                    ELSE siteStore
    /\ dets' = [dets EXCEPT ![d].pc = "done", ![d].siteConfig = <<>>,
                   ![d].configs = <<>>, ![d].result = dets[d].detected,
                   ![d].wr = IF ioOk THEN @ \cup {"siteConfigs"} ELSE @,
                   ![d].rej = IF ioOk THEN @ ELSE @ \cup {"siteConfigs"}]
    /\ UNCHANGED <<now, storage, calls, setter, mgr, served, breaker, history,
                   settingsStore, settingsCache, replies>>
    /\ returned' = [returned EXCEPT ![dets[d].url] = <<dets[d].detected[1].language>>]

\* getSettings: the read completes and the settings (DEFAULT_SETTINGS when
\* none are stored) are cached, or it is rejected and DEFAULT_SETTINGS is
\* returned; the fallback result is returned
LangSettingsRead(d, ioOk) ==
    /\ dets[d].pc = "settingsRead"
    /\ LET settings == IF ioOk /\ settingsStore # <<>> THEN settingsStore[1]
                       ELSE DEFAULT_SETTINGS
       IN  /\ settingsCache' = IF ioOk THEN <<settings>> ELSE settingsCache
           /\ dets' = [dets EXCEPT ![d].pc = "done",
                          ![d].result = <<Fallback(settings)>>,
                          ![d].rd = @ \cup {"settings"},
                          ![d].rej = IF ioOk THEN @ ELSE @ \cup {"settings"}]
    /\ UNCHANGED <<now, storage, calls, setter, mgr, served, breaker, history,
                   siteStore, settingsStore, returned, replies>>

\* the caller has taken the result
LangReturn(d) ==
    /\ dets[d].pc = "done"
    /\ dets' = [dets EXCEPT ![d] = IdleDet]
    /\ UNCHANGED <<now, storage, calls, setter, mgr, served, breaker, history,
                   siteStore, settingsStore, settingsCache, returned, replies>>

\* The detector under an environment e: the calls that may be made (e.dets,
\* e.sites, e.contexts, overlapping or one at a time), what the detection
\* endpoint answers (e.responses), whether storage and crypto operations
\* may fail (e.io, e.crypto)
LangNext(e) ==
    \/ \E d \in e.dets, url \in e.sites, context \in e.contexts :
           /\ e.overlap \/ \A o \in Dets : dets[o].pc = "idle"
           /\ LangBegin(d, url, context)
    \/ \E d \in e.dets, ioOk \in e.io : LangSavedRead(d, ioOk)
    \/ \E d \in e.dets, ioOk \in e.io, cryptoOk \in e.crypto :
           LangDetectGetAPIKey(d, ioOk, cryptoOk)
    \/ \E d \in e.dets, resp \in e.responses : LangDetectFetch(d, resp)
    \/ \E d \in e.dets, ioOk \in e.io : LangSaveRead(d, ioOk)
    \/ \E d \in e.dets, ioOk \in e.io : LangSaveConfigsRead(d, ioOk)
    \/ \E d \in e.dets, ioOk \in e.io : LangSaveWrite(d, ioOk)
    \/ \E d \in e.dets, ioOk \in e.io : LangSettingsRead(d, ioOk)
    \/ \E d \in e.dets : LangReturn(d)

\* handleUpdateSettings(message): setSettings writes the settings and, when
\* the write completes, puts them in StorageManager's cache; a rejected
\* write is rethrown and changes nothing
UpdateSettings(settings, ioOk) ==
    /\ settingsStore' = IF ioOk THEN <<settings>> ELSE settingsStore
    /\ settingsCache' = IF ioOk THEN <<settings>> ELSE settingsCache
    /\ settingsStore' # settingsStore \/ settingsCache' # settingsCache
    /\ UNCHANGED <<now, storage, calls, setter, mgr, served, breaker, history,
                   siteStore, dets, returned, replies>>

\* the settings the options page, the popup and the content script send: with
\* a default chat language, or (content script, settings not loaded) without
SentSettings == {[defaultChatLanguage |-> En], [defaultChatLanguage |-> <<>>]}

\* message texts
HolaAmigos == <<104, 111, 108, 97, 44, 32, 97, 109, 105, 103, 111, 115>>    \* "hola, amigos"
HelloThere == <<104, 101, 108, 108, 111, 32, 116, 104, 101, 114, 101>>    \* "hello there"
TenDigits == <<48, 49, 50, 51, 52, 53, 54, 55, 56, 57>>    \* "0123456789"
OnlyTags == <<60, 98, 62, 60, 47, 98, 62, 60, 105, 62, 60, 47, 105, 62>>    \* "<b></b><i></i>"

\* a message {text}; a null entry of the messages array
Msg(text) == [given |-> TRUE, text |-> text]
NullMsg == [given |-> FALSE, text |-> <<>>]

\* the context the content script sends: {messages, pageInfo} (no url)
Context(list, pageInfo) ==
    [given |-> TRUE, messages |-> [kind |-> "array", list |-> list],
     pageInfo |-> pageInfo, url |-> <<>>]

PageEn == <<[htmlLang |-> En, metaLanguage |-> <<>>]>>

\* contexts: none; page metadata only; a short chat with a repeated message,
\* a message of exactly 10 characters, one that sanitizes to '' and one
\* without text; a chat with a null entry
ShortContexts ==
    {NoContext,
     [Context(<<>>, PageEn) EXCEPT !.messages = [kind |-> "missing", list |-> <<>>]],
     Context(<<Msg(HolaAmigos), Msg(TenDigits), Msg(HolaAmigos), Msg(OnlyTags),
               Msg(<<>>), Msg(HelloThere)>>, PageEn),
     Context(<<Msg(HolaAmigos), NullMsg>>, <<>>)}

\* One getLanguageWithFallback call at a time, with failing storage and
\* crypto operations and every answer of the detection endpoint
DetEnv ==
    [dets |-> {1}, overlap |-> FALSE, sites |-> {"site1"},
     contexts |-> ShortContexts, responses |-> DetectResponses,
     io |-> BOOLEAN, crypto |-> BOOLEAN]

\* the store a service worker starts on: a credential, no site
\* configuration, the settings of an earlier run or none
DetInit ==
    /\ failureCount = 0
    /\ circuitOpen = FALSE
    /\ timers = <<>>
    /\ now = 0
    /\ cacheStore = <<>>
    /\ apiStore \in {<<c>> : c \in {s \in StoredConfigs : s.dailyQuotaUsed = 0}}
    /\ defaultCfg = DEFAULT_API_CONFIG(0)
    /\ calls = [c \in Calls |-> IdleCall]
    /\ setter = IdleSetter
    /\ siteStore = [u \in Sites |-> <<>>]
    /\ settingsStore \in {<<>>} \cup {<<s>> : s \in SentSettings}
    /\ settingsCache = <<>>
    /\ dets = [d \in Dets |-> IdleDet]
    /\ returned = [u \in Sites |-> <<>>]
    /\ replies = [c \in Calls |-> NoMessage]
    /\ mgr = IdleMgr
    /\ served = 0
    /\ openFor = 0
    /\ streak = 0
    /\ lastClose = "none"

DetNext ==
    \/ LangNext(DetEnv)
    \/ \E settings \in SentSettings, ioOk \in BOOLEAN : UpdateSettings(settings, ioOk)

DetSpec == DetInit /\ [][DetNext]_vars

----------------------------------------------------------------------------
(* Saved detections *)

\* what a call for a site with the saved detection siteConfig is to return
SavedResult(siteConfig) ==
    DetectionResult(siteConfig.chatLanguage,
                    IF siteConfig.detectionConfidence = <<>> THEN Q(9, 10)
                    ELSE siteConfig.detectionConfidence[1],
                    "saved")

\* invocation d gets the answer of its getSavedLanguageForSite read in this
\* step, and a detection is saved for its site
SavedReadStep(d) ==
    /\ dets[d].pc = "savedRead"
    /\ dets'[d].pc # "savedRead"
    /\ siteStore[dets[d].url] # <<>>

\* invocation d returns the saved detection and has run no strategy, made no
\* detection API call and written nothing
ReturnsSaved(d) ==
    /\ dets'[d].pc = "done"
    /\ dets'[d].result = <<SavedResult(siteStore[dets[d].url][1])>>
    /\ dets'[d].ran = <<>>
    /\ dets'[d].sent = <<>>
    /\ dets'[d].outcomes = <<>>
    /\ dets'[d].wr = {}
    /\ siteStore' = siteStore

\* C22 (as stated): if a saved detection exists for the site,
\* getLanguageWithFallback returns it with method 'saved' (confidence 0.9
\* when none was recorded) without invoking any detection strategy, without
\* any detection API call and without writing storage.
C22_SavedDetectionReturned ==
    [][\A d \in Dets : SavedReadStep(d) => ReturnsSaved(d)]_vars

\* C22 (amended): if a saved detection exists for the site and the read of
\* the site configurations completes, getLanguageWithFallback returns it
\* with method 'saved' without invoking any detection strategy, without any
\* detection API call and without writing storage; when the read is
\* rejected the call goes on as if nothing were saved.
C22_SavedDetectionReturnedOnRead ==
    [][\A d \in Dets : SavedReadStep(d) =>
           IF "siteConfigs" \notin dets'[d].rej THEN ReturnsSaved(d)
           ELSE dets'[d].result = <<>> \/ dets'[d].result[1].method # "saved"]_vars

\* a call has returned the detection saved by an earlier call
C22_Witness ==
    \E d \in Dets :
        /\ dets[d].pc = "done"
        /\ dets[d].result # <<>>
        /\ dets[d].result[1].method = "saved"
        /\ dets[d].rej = {}
        /\ siteStore[dets[d].url] # <<>>

----------------------------------------------------------------------------
(* Detections persisted under overlapping calls *)

\* Overlapping getLanguageWithFallback calls for two sites; every storage
\* and crypto operation completes
DetRaceEnv ==
    [dets |-> Dets, overlap |-> TRUE, sites |-> Sites,
     contexts |-> {NoContext, Context(<<Msg(HolaAmigos)>>, <<>>)},
     responses |-> {r \in DetectResponses :
                        r.kind = "rejected" \/ r.confidence = Q(1, 1)},
     io |-> {TRUE}, crypto |-> {TRUE}]

DetRaceNext == LangNext(DetRaceEnv)

DetRaceSpec == DetInit /\ [][DetRaceNext]_vars

\* invocation d returns in this step
Returns(d) == dets[d].pc # "done" /\ dets'[d].pc = "done"

\* C23: with no saved detection for the site, if the strategy chain yields a
\* result with confidence >= 0.8, getLanguageWithFallback persists it under
\* the site before returning it, so the next call for that site returns the
\* same language with method 'saved'; results below the threshold and
\* fallback results are never persisted.
C23_DetectionPersisted ==
    [][\A d \in Dets :
          /\ (Returns(d) /\ dets'[d].result[1].method \notin {"saved", "fallback"})
                 => /\ QGeq(dets'[d].result[1].confidence, confidenceThreshold)
                    /\ siteStore'[dets[d].url] # <<>>
                    /\ siteStore'[dets[d].url][1].chatLanguage
                           = dets'[d].result[1].language
          /\ (Returns(d) /\ dets'[d].result[1].method = "fallback")
                 => dets'[d].wr = {} /\ siteStore' = siteStore
          /\ (/\ dets[d].pc = "savedRead"
              /\ dets'[d].pc # "savedRead"
              /\ returned[dets[d].url] # <<>>)
                 => /\ dets'[d].pc = "done"
                    /\ dets'[d].result[1].method = "saved"
                    /\ dets'[d].result[1].language = returned[dets[d].url][1]]_vars

----------------------------------------------------------------------------
(* The fallback *)

\* the default chat language configured: the stored settings', 'es' when no
\* settings are stored or they name none
ConfiguredDefault ==
    IF settingsStore # <<>> /\ settingsStore[1].defaultChatLanguage # <<>>
    THEN settingsStore[1].defaultChatLanguage
    ELSE DEFAULT_SETTINGS.defaultChatLanguage

\* C24 (as stated): getLanguageWithFallback never raises: for any context
\* (missing or malformed fields, failing detection API, failing storage
\* reads or writes) it returns a result, and when there is no saved
\* detection and no strategy reaches 0.8 that result is the configured
\* default chat language with confidence 0.5 and method 'fallback'.
C24_FallbackIsConfiguredDefault ==
    [][\A d \in Dets : Returns(d) =>
           /\ dets'[d].result # <<>>
           /\ (siteStore[dets[d].url] = <<>> /\ dets'[d].detected = <<>>)
                  => dets'[d].result
                         = <<DetectionResult(ConfiguredDefault, Q(1, 2), "fallback")>>]_vars

\* C24 (amended): getLanguageWithFallback always returns a result, and when
\* no saved detection is read and no strategy reaches 0.8 the result has
\* confidence 0.5 and method 'fallback', with the configured default chat
\* language when the settings are cached or their read completes and with
\* 'es' when their read is rejected.
C24_FallbackIsDefaultOnRead ==
    [][\A d \in Dets : Returns(d) =>
           /\ dets'[d].result # <<>>
           /\ (dets'[d].result[1].method # "saved" /\ dets'[d].detected = <<>>)
                  => dets'[d].result
                         = <<DetectionResult(IF "settings" \in dets'[d].rej THEN Es
                                             ELSE ConfiguredDefault,
                                             Q(1, 2), "fallback")>>]_vars

\* a call whose detection requests all failed has returned the configured
\* default 'en'
C24_Witness ==
    \E d \in Dets :
        /\ dets[d].pc = "done"
        /\ dets[d].outcomes # <<>>
        /\ \A i \in 1..Len(dets[d].outcomes) : dets[d].outcomes[i] # "ok"
        /\ dets[d].result = <<DetectionResult(En, Q(1, 2), "fallback")>>
        /\ ConfiguredDefault = En

----------------------------------------------------------------------------
(* The strategy chain *)

StrategyOrder == <<"messageHistory", "pageMetadata", "urlPattern">>

\* what the three strategies yield for invocation d once its message
\* samples have been detected (nothing when the strategy throws)
StrategyResults(d) ==
    <<historyResult(dets'[d].detections),
      IF dets[d].context.given THEN detectByPageMetadata(dets[d].context.pageInfo)
      ELSE <<>>,
      IF dets[d].context.given THEN detectByURL(dets[d].context.url) ELSE <<>>>>

\* C25: detectChatLanguage returns the result of the first strategy, in the
\* order message-history, page-metadata, URL-pattern, whose confidence is
\* >= 0.8, without running the later strategies, and returns no result when
\* none reaches 0.8; a strategy that throws is skipped and the chain
\* continues with the next one.
C25_FirstStrategyAboveThreshold ==
    [][\A d \in Dets : (dets[d].ran = <<>> /\ dets'[d].ran # <<>>) =>
           LET results == StrategyResults(d)
               k == First({i \in 1..3 : /\ results[i] # <<>>
                                        /\ QGeq(results[i][1].confidence, Q(8, 10))})
           IN  IF k = 0
               THEN dets'[d].detected = <<>> /\ dets'[d].ran = StrategyOrder
               ELSE /\ dets'[d].detected = results[k]
                    /\ dets'[d].ran = SubSeq(StrategyOrder, 1, k)]_vars

\* the message history has reached the threshold and the chain has stopped
\* there, with page metadata at hand
C25_Witness ==
    \E d \in Dets :
        /\ dets[d].pc = "saveRead"
        /\ dets[d].ran = <<"messageHistory">>
        /\ dets[d].context.pageInfo = PageEn
        /\ \E i \in 1..Len(dets[d].outcomes) : dets[d].outcomes[i] # "ok"

----------------------------------------------------------------------------
(* The confidence of the message history *)

\* the sum of the confidences of the detections of a language, as the pair
\* <<numerator, denominator>> over the common denominator 2 (the sample
\* confidences of the model are 1 and 1/2)
Halves(detections, language) ==
    LET Twice(i) == IF detections[i].confidence = Q(1, 1) THEN 2 ELSE 1
        RECURSIVE Sum(_)
        Sum(i) == IF i = 0 THEN 0
                  ELSE Sum(i - 1) + (IF detections[i].language = language
                                     THEN Twice(i) ELSE 0)
    IN  Sum(Len(detections))

\* C26: detectByMessageHistory returns the language with the highest count
\* among the successful sample detections, with confidence = (mean
\* confidence of that language's samples + that language's share of all
\* successful samples) / 2, which lies in [0,1] whenever every sample
\* confidence does.
C26_HistoryConfidence ==
    [][\A d \in Dets :
          (dets[d].ran = <<>> /\ dets'[d].ran # <<>> /\ dets'[d].detections # <<>>) =>
              LET detections == dets'[d].detections
                  total == Len(detections)
                  result == dets'[d].byHistory
                  language == result[1].language
                  count == Cardinality({i \in 1..total :
                                            detections[i].language = language})
                  confidence == result[1].confidence
              IN  /\ result # <<>>
                  /\ result[1].method = "messageHistory"
                  /\ count >= 1
                  /\ \A i \in 1..total :
                         Cardinality({j \in 1..total :
                             detections[j].language = detections[i].language})
                             <= count
                  \* confidence = (halves / (2 count) + count / total) / 2
                  /\ confidence[1] * (4 * count * total)
                         = confidence[2] * (Halves(detections, language) * total
                                            + 2 * count * count)
                  /\ 0 <= confidence[1]
                  /\ confidence[1] <= confidence[2]]_vars

\* three samples were detected, in two languages and with two confidences
C26_Witness ==
    \E d \in Dets :
        /\ dets[d].byHistory # <<>>
        /\ Len(dets[d].detections) = 3
        /\ \E i, j \in 1..3 :
               /\ dets[d].detections[i].language # dets[d].detections[j].language
               /\ dets[d].detections[i].confidence # dets[d].detections[j].confidence
        /\ dets[d].byHistory[1].confidence = Q(17, 24)

----------------------------------------------------------------------------
(* The message window *)

\* C27: detectByMessageHistory considers only the last 20 messages, keeps
\* those whose text is longer than 10 characters with duplicates removed,
\* and issues at most 10 detection API calls per invocation.
C27_WindowWithoutDuplicates ==
    \A d \in Dets :
        LET list == dets[d].context.messages.list
            last == {i \in 1..Len(list) : i > Len(list) - 20}
        IN  /\ Len(dets[d].sent) <= 10
            /\ \A k \in 1..Len(dets[d].samples) :
                   /\ \E i \in last : list[i] = dets[d].samples[k]
                   /\ Len(dets[d].samples[k].text) > 10
                   /\ \A j \in 1..Len(dets[d].samples) :
                          j # k => dets[d].samples[j].text # dets[d].samples[k].text

----------------------------------------------------------------------------
(* Service worker: handleTranslateOutgoing and handleTranslateIncoming *)

\* mutant: a failed translation is answered with the sanitized text
HandlerResponse_Sanitized(text, res) ==
    IF res.ok
    THEN [success |-> TRUE, translatedText |-> res.translatedText,
          originalText |-> text, fromCache |-> res.fromCache, code |-> ""]
    ELSE [success |-> FALSE, translatedText |-> sanitizeText(text, MAX_LENGTH),
          originalText |-> text, fromCache |-> FALSE, code |-> res.code]

\* the response of the handlers for the result or the error of translate
HandlerResponse(text, res) ==
    IF res.ok
    THEN [success |-> TRUE, translatedText |-> res.translatedText,
          originalText |-> text, fromCache |-> res.fromCache, code |-> ""]
    ELSE [success |-> FALSE, translatedText |-> text, originalText |-> text,
          fromCache |-> FALSE, code |-> res.code]

\* a translateOutgoing or translateIncoming message arrives: handleMessage
\* dispatches it to its handler, which takes text, fromLang and toLang
HandleMessage(c, handler, text, langs) ==
    /\ calls[c].pc = "idle"
    /\ replies[c].state \in {"none", "answered"}
    /\ replies' = [replies EXCEPT ![c] = [NoMessage EXCEPT !.state = "received",
                                              !.handler = handler, !.text = text,
                                              !.langs = langs]]
    /\ UNCHANGED <<now, storage, calls, setter, mgr, detector, served, breaker,
                   history>>

\* handleTranslateOutgoing's catch: notifyError returns, whatever became of
\* chrome.tabs.query and chrome.tabs.sendMessage (its own try/catch)
HandleNotifyError(c, tab) ==
    /\ calls[c].pc = "done"
    /\ ~calls[c].res.ok
    /\ replies[c].state = "received"
    /\ replies[c].handler = "outgoing"
    /\ replies' = [replies EXCEPT ![c].state = "notified", ![c].tab = tab]
    /\ UNCHANGED <<now, storage, calls, setter, mgr, detector, served, breaker,
                   history>>

\* the handler returns its response, which the listener sends
HandleReply(c) ==
    /\ calls[c].pc = "done"
    /\ \/ replies[c].state = "notified"
       \/ /\ replies[c].state = "received"
          /\ calls[c].res.ok \/ replies[c].handler = "incoming"
    /\ replies' = [replies EXCEPT ![c].state = "answered",
                      ![c].response = <<HandlerResponse(replies[c].text,
                                                        calls[c].res)>>]
    /\ UNCHANGED <<now, storage, calls, setter, mgr, detector, served, breaker,
                   history>>

\* what chrome.tabs.query and chrome.tabs.sendMessage can do in notifyError
Tabs == {"noTab", "sent", "queryRejected", "sendRejected"}

\* One translate message at a time, with failing storage and crypto
\* operations: the handlers call translate with the message's arguments,
\* and take its result when they answer
HandlerNext ==
    \/ \E c \in StoreEnv.calls, handler \in {"outgoing", "incoming"},
          text \in StoreEnv.texts, langs \in StoreEnv.langs :
           /\ AllIdle
           /\ HandleMessage(c, handler, text, langs)
    \/ \E c \in StoreEnv.calls :
           /\ replies[c].state = "received"
           /\ TranslateBegin(c, replies[c].text, replies[c].langs)
    \/ \E c \in StoreEnv.calls, ioOk \in StoreEnv.io : TranslateCacheLookup(c, ioOk)
    \/ \E c \in StoreEnv.calls, ioOk \in StoreEnv.io, cryptoOk \in StoreEnv.crypto :
           TranslateGetAPIKey(c, ioOk, cryptoOk)
    \/ \E c \in StoreEnv.calls, ioOk \in StoreEnv.io : TranslateCheckQuota(c, ioOk)
    \/ \E c \in StoreEnv.calls, resp \in Responses :
           /\ resp.kind = "ok" => served < MaxServed
           /\ TranslateFetch(c, resp)
    \/ \E c \in StoreEnv.calls : TranslateRetry(c)
    \/ \E c \in StoreEnv.calls, ioOk \in StoreEnv.io : TranslateCacheRead(c, ioOk)
    \/ \E c \in StoreEnv.calls, ioOk \in StoreEnv.io : TranslateCacheWrite(c, ioOk)
    \/ \E c \in StoreEnv.calls, ioOk \in StoreEnv.io : TranslateTrackRead(c, ioOk)
    \/ \E c \in StoreEnv.calls, ioOk \in StoreEnv.io : TranslateTrackWrite(c, ioOk)
    \/ \E c \in StoreEnv.calls, tab \in Tabs : HandleNotifyError(c, tab)
    \/ \E c \in StoreEnv.calls : HandleReply(c)
    \/ \E c \in StoreEnv.calls :
           /\ replies[c].state = "answered"
           /\ TranslateReturn(c)
    \/ TimerTick

HandlerSpec == Init /\ [][HandlerNext]_vars

\* C28: a translateOutgoing or translateIncoming request whose translation
\* fails is answered (not rejected) with success=false, the error's code,
\* and translatedText equal to the original untranslated text.
C28_FailureAnsweredWithOriginal ==
    \A c \in Calls :
        /\ replies[c].state # "rejected"
        /\ (replies[c].state = "answered" /\ calls[c].pc = "done" /\ ~calls[c].res.ok)
               => /\ replies[c].response[1].success = FALSE
                  /\ replies[c].response[1].code = calls[c].res.code
                  /\ replies[c].response[1].translatedText = replies[c].text
                  /\ replies[c].response[1].originalText = replies[c].text

\* an outgoing '<b>Hi</b>' whose translation failed with a coded error has
\* been answered after a notification that could not be sent
C28_Witness ==
    \E c \in Calls :
        /\ replies[c].state = "answered"
        /\ replies[c].handler = "outgoing"
        /\ replies[c].tab = "sendRejected"
        /\ replies[c].text = Hi
        /\ calls[c].pc = "done"
        /\ ~calls[c].res.ok
        /\ calls[c].res.code = QUOTA_EXCEEDED

----------------------------------------------------------------------------
(* Storage failures during a translation *)

\* the storage operation op of call c fails in this step
FailsIn(c, op) == op \notin calls[c].failed /\ op \in calls'[c].failed

\* C29: storage failures do not fail a translation: a failing cache read is
\* treated as a miss, a failing quota read does not block the call, a
\* failing cache write or quota write after a successful API call still
\* lets translate return the translation with fromCache=false, and a
\* failing credential read yields API_KEY_MISSING rather than a storage
\* error.
C29_StorageFailuresDegrade ==
    [][\A c \in Calls :
          /\ FailsIn(c, "getCachedTranslation") => calls'[c].pc = "getAPIKey"
          /\ FailsIn(c, "getQuotaStatus") => calls'[c].pc = "fetch"
          /\ (calls[c].pc \in {"cacheRead", "cacheWrite", "trackRead", "trackWrite"}
              /\ calls'[c].pc = "done")
                 => calls'[c].res = Success(calls[c].translation, FALSE)
          /\ (calls[c].pc \in {"cacheRead", "cacheWrite", "trackRead"})
                 => calls'[c].pc \in {calls[c].pc, "cacheWrite", "trackRead",
                                      "trackWrite"}
          /\ (calls[c].pc = "getAPIKey" /\ calls'[c].pc # "getAPIKey"
              /\ "getAPIKey" \in calls'[c].failed)
                 => /\ calls'[c].pc = "done"
                    /\ calls'[c].res = Failure(TranslationError(API_KEY_MISSING, FALSE))]_vars

----------------------------------------------------------------------------
(* detectLanguage *)

\* a detectLanguage call of invocation d is in progress
Detecting(d) == dets[d].pc \in {"detectKey", "detectFetch"}

\* C30: detectLanguage issues at most one network request per call, never
\* retries whatever the failure, never reads or writes the translation
\* cache or the quota, and propagates any failure to its caller.
C30_DetectIsOneRequest ==
    [][\A d \in Dets :
          /\ Len(dets'[d].sent) <= Len(dets'[d].outcomes)
                                   + (IF dets'[d].pc = "detectFetch" THEN 1 ELSE 0)
          /\ Detecting(d) =>
                 /\ cacheStore' = cacheStore
                 /\ apiStore' = apiStore
                 /\ defaultCfg' = defaultCfg
                 /\ "cache" \notin dets'[d].rd \cup dets'[d].wr
                 /\ "api" \notin dets'[d].wr
          /\ (dets[d].pc = "detectFetch" /\ dets'[d] # dets[d]) =>
                 LET call == Len(dets[d].outcomes) + 1
                     failure == dets'[d].answer[1].kind # "ok"
                 IN  /\ Len(dets'[d].sent) = Len(dets[d].sent)
                     /\ Len(dets'[d].outcomes) >= call
                     /\ failure <=> dets'[d].outcomes[call] # "ok"
                     /\ dets'[d].detections
                            = IF failure THEN dets[d].detections
                              ELSE Append(dets[d].detections,
                                          [language |-> dets'[d].answer[1].language,
                                           confidence |-> dets'[d].answer[1].confidence])]_vars

\* three requests were sent for three detectLanguage calls, of which one
\* failed with a status that translate would retry
C30_Witness ==
    \E d \in Dets :
        /\ Len(dets[d].sent) = 3
        /\ Len(dets[d].outcomes) = 4
        /\ \E i \in 1..4 : dets[d].outcomes[i] = handleAPIError(429).code
        /\ \E i \in 1..4 : dets[d].outcomes[i] = DETECTION_FAILED

----------------------------------------------------------------------------
(* Requests while the breaker is open *)

\* C31: at no time while the breaker is open is a translate network request
\* issued, including by calls that passed the breaker check before it opened
\* and are still waiting in back-off to retry.
C31_NoRequestWhileOpen ==
    [][\A c \in Calls : calls'[c].reqs > calls[c].reqs => ~circuitOpen]_vars

----------------------------------------------------------------------------
(* Overlapping translate calls for the same text *)

\* Two translate('Hello', 'en', 'es') calls that may overlap; the provider
\* answers every request with 'Hola' and every storage operation completes
DupNext ==
    \/ \E c \in Calls :
           TranslateBegin(c, Hello, <<En, Es>>)
    \/ \E c \in Calls : TranslateCacheLookup(c, TRUE)
    \/ \E c \in Calls : TranslateGetAPIKey(c, TRUE, TRUE)
    \/ \E c \in Calls : TranslateCheckQuota(c, TRUE)
    \/ \E c \in Calls, resp \in {r \in Responses : r.kind = "ok" /\ r.text = "Hola"} :
           /\ served < MaxDuplicates
           /\ TranslateFetch(c, resp)
    \/ \E c \in Calls : TranslateCacheRead(c, TRUE)
    \/ \E c \in Calls : TranslateCacheWrite(c, TRUE)
    \/ \E c \in Calls : TranslateTrackRead(c, TRUE)
    \/ \E c \in Calls : TranslateTrackWrite(c, TRUE)
    \/ \E c \in Calls : TranslateReturn(c)

DupSpec == Init /\ [][DupNext]_vars

\* C32: two overlapping translate calls for the same (text, fromLang,
\* toLang) that start with no cache entry can both miss the cache, both
\* issue a network request, and both add the text length to the quota: the
\* duplicate call is not suppressed or serialized.  (That both can is the
\* witness; the formula says what makes it so: whatever the other call is
\* doing, a lookup that finds no entry goes on to the request, and a call
\* that got the provider's text adds the length of its text to the counter
\* it reads and stores the sum.)
C32_DuplicateNotSuppressed ==
    [][\A c \in Calls :
          /\ (/\ calls[c].pc = "cacheLookup"
              /\ calls'[c].pc # "cacheLookup"
              /\ CacheIndex(cacheStore, generateCacheKey(calls[c].text,
                                calls[c].fromLang, calls[c].toLang)) = 0)
                 => calls'[c].pc = "getAPIKey"
          /\ (calls[c].pc = "getQuotaStatus" /\ calls'[c].pc \notin {"getQuotaStatus", "done"})
                 => calls'[c].pc = "fetch" /\ calls'[c].reqs = calls[c].reqs + 1
          /\ (calls[c].pc = "trackRead" /\ calls'[c].pc # "trackRead")
                 => /\ calls'[c].pc = "trackWrite"
                    /\ calls'[c].config[1].dailyQuotaUsed
                           = (IF Persisted.quotaResetDate = Today(now)
                              THEN Persisted.dailyQuotaUsed ELSE 0)
                             + Len(calls[c].text)
          /\ (calls[c].pc = "trackWrite" /\ calls'[c].pc # "trackWrite")
                 => /\ calls'[c].res = Success(calls[c].translation, FALSE)
                    /\ apiStore' = calls[c].config]_vars

\* both calls have missed the cache, sent a request and returned the
\* provider's text, and the stored counter has grown by twice the length
C32_Witness ==
    /\ \E c, d \in Calls :
           /\ c # d
           /\ \A e \in {c, d} :
                  /\ calls[e].pc = "done"
                  /\ calls[e].res = Success("Hola", FALSE)
                  /\ calls[e].reqs = 1
                  /\ calls[e].text = Hello
    /\ served = 2
    /\ Persisted.dailyQuotaUsed = 2 * Len(Hello)

----------------------------------------------------------------------------
(* Failures counted per call *)

\* C33: a translate call that fails in the API client increments the failure
\* counter by exactly one, however many of the one to three network attempts
\* it made: the attempt that ends the call adds one, and an attempt that is
\* followed by a retry, the back-off and the retry itself add nothing.
C33_OneFailurePerCall ==
    [][\A c \in Calls :
          /\ (calls[c].pc = "fetch" /\ calls'[c].pc = "done")
                 => /\ ~calls'[c].res.ok
                    /\ calls[c].reqs \in 1..RETRY_ATTEMPTS
                    /\ failureCount' = failureCount + 1
          /\ (calls[c].pc = "fetch" /\ calls'[c].pc = "sleep")
                 => failureCount' = failureCount
          /\ (calls[c].pc = "sleep" /\ calls'[c].pc # "sleep")
                 => calls'[c].pc = "fetch" /\ failureCount' = failureCount]_vars

\* the only call made so far failed at its third attempt and the counter is 1
C33_Witness ==
    \E c \in Calls :
        /\ calls[c].pc = "done"
        /\ ~calls[c].res.ok
        /\ calls[c].reqs = RETRY_ATTEMPTS
        /\ failureCount = 1
        /\ streak = 1
        /\ \A d \in Calls \ {c} : calls[d].pc = "idle"

----------------------------------------------------------------------------
(* Size of the cache under overlapping writes *)

\* a full cache on day 1 and a stored credential with quota left
FullInit ==
    /\ failureCount = 0
    /\ circuitOpen = FALSE
    /\ timers = <<>>
    /\ now = ClockStepMs
    /\ cacheStore \in {FullCache(age) : age \in Ages}
    /\ apiStore \in {<<c>> : c \in {s \in StoredConfigs : s.dailyQuotaUsed = 0}}
    /\ defaultCfg = DEFAULT_API_CONFIG(0)
    /\ calls = [c \in Calls |-> IdleCall]
    /\ setter = IdleSetter
    /\ siteStore = [u \in Sites |-> <<>>]
    /\ settingsStore = <<>>
    /\ settingsCache = <<>>
    /\ dets = [d \in Dets |-> IdleDet]
    /\ returned = [u \in Sites |-> <<>>]
    /\ replies = [c \in Calls |-> NoMessage]
    /\ mgr = IdleMgr
    /\ served = 0
    /\ openFor = 0
    /\ streak = 0
    /\ lastClose = "none"

\* translate calls for two new texts and a stored one (written again when
\* its lookup is rejected) whose setCachedTranslation may overlap
FullNext ==
    \/ \E c \in Calls, text \in {Hello, Aa, Digits(0)} :
           TranslateBegin(c, text, <<En, Es>>)
    \/ \E c \in Calls, ioOk \in BOOLEAN : TranslateCacheLookup(c, ioOk)
    \/ \E c \in Calls : TranslateGetAPIKey(c, TRUE, TRUE)
    \/ \E c \in Calls : TranslateCheckQuota(c, TRUE)
    \/ \E c \in Calls, resp \in {r \in Responses : r.kind = "ok" /\ r.text = "Hola"} :
           /\ served < MaxDuplicates
           /\ TranslateFetch(c, resp)
    \/ \E c \in Calls, ioOk \in BOOLEAN : TranslateCacheRead(c, ioOk)
    \/ \E c \in Calls, ioOk \in BOOLEAN : TranslateCacheWrite(c, ioOk)
    \/ \E c \in Calls : TranslateTrackRead(c, TRUE)
    \/ \E c \in Calls : TranslateTrackWrite(c, TRUE)
    \/ \E c \in Calls : TranslateReturn(c)

FullSpec == FullInit /\ [][FullNext]_vars

\* C34: after any sequence or interleaving of setCachedTranslation calls the
\* persisted cache never holds more than 1000 entries (the entries being
\* counted by their keys).
C34_CacheNeverAboveMax ==
    /\ Len(cacheStore) <= 1000
    /\ Cardinality({cacheStore[i].key : i \in 1..Len(cacheStore)}) = Len(cacheStore)

\* two translate calls for different new texts both read the full cache
\* before either wrote, and both have written: 801 entries are stored
C34_Witness ==
    /\ Len(cacheStore) = 801
    /\ \E c, d \in Calls :
           /\ calls[c].text = Hello
           /\ calls[d].text = Aa
           /\ \A e \in {c, d} : "cache" \in calls[e].wr /\ calls[e].pc = "done"

----------------------------------------------------------------------------
(* The stored credential under overlapping quota writes *)

\* C35: after a setAPIKey(k) has completed, getAPIKey returns k until the
\* next setAPIKey, for every interleaving with translate calls in flight: a
\* quota write overlapping the key change never restores an older credential
\* or salt.  (Here k is 'AIzaB' with salt 's2', the only key set in KeySpec,
\* so no step taken while no setAPIKey is in flight may change either.)
C35_KeyStaysSet ==
    [][(/\ setter.pc \in {"idle", "done"}
        /\ getAPIKey(Persisted, TRUE) = "AIzaB"
        /\ Persisted.encryptionSalt = "s2")
          => LET after == getAPIConfig(apiStore', defaultCfg', TRUE).config
             IN  /\ getAPIKey(after, TRUE) = "AIzaB"
                 /\ after.encryptionSalt = "s2"]_vars

----------------------------------------------------------------------------
(* Failure counter and breaker *)

\* C36: in every reachable state, a failure counter of 5 or more implies that
\* the breaker is open.
C36_ThresholdImpliesOpen == failureCount >= THRESHOLD => circuitOpen


\* the counter has passed the threshold (a call in flight failed after the
\* breaker opened), two closing callbacks are pending and the breaker is open
C36_Witness ==
    /\ failureCount > THRESHOLD
    /\ circuitOpen
    /\ Len(timers) = 2

----------------------------------------------------------------------------
(* service-worker.js: handleSetAPIKey *)

\* what the listener sends for a setAPIKey message: {success: true} when
\* setAPIKey and the test translation returned; for API_KEY_INVALID the
\* handler's own {success: false, code}, and for every other error, rethrown
\* by the handler, the listener's {success: false, code: error.code ||
\* TRANSLATION_FAILED}
SetAPIKeyResponse(stored, res) ==
    IF ~stored THEN [success |-> FALSE, code |-> TRANSLATION_FAILED]
    ELSE IF res.ok THEN [success |-> TRUE, code |-> ""]
    ELSE [success |-> FALSE, code |-> res.code]

\* handleSetAPIKey returns, or throws to the listener, which answers
HandleSetAPIKeyReply(c) ==
    /\ replies[c].state = "received"
    /\ replies[c].handler = "setAPIKey"
    /\ setter.pc = "done"
    /\ setter.ok => calls[c].pc = "done"
    /\ replies' = [replies EXCEPT ![c].state = "answered",
                      ![c].response = <<SetAPIKeyResponse(setter.ok, calls[c].res)>>]
    /\ UNCHANGED <<now, storage, calls, setter, mgr, detector, served, breaker,
                   history>>

\* One message at a time: translateIncoming for 'Hello' from en to es, and
\* setAPIKey, whose handler stores the key and then calls
\* translate('Hello', 'en', 'es'); the setAPIConfig write may be rejected
SetKeyNext ==
    \/ \E c \in KeyEnv.calls, handler \in {"incoming", "setAPIKey"} :
           /\ AllIdle
           /\ HandleMessage(c, handler, Hello, <<En, Es>>)
    \/ \E c \in KeyEnv.calls, k \in KeyEnv.keys, s \in KeyEnv.salts :
           /\ replies[c].state = "received"
           /\ replies[c].handler = "setAPIKey"
           /\ SetAPIKeyBegin(k, s, TRUE)
    \/ SetAPIKeyRead(TRUE)
    \/ \E ioOk \in BOOLEAN : SetAPIKeyWrite(ioOk)
    \/ \E c \in KeyEnv.calls :
           /\ replies[c].state = "received"
           /\ replies[c].handler = "setAPIKey" => setter.pc = "done" /\ setter.ok
           /\ TranslateBegin(c, replies[c].text, replies[c].langs)
    \/ \E c \in KeyEnv.calls : TranslateCacheLookup(c, TRUE)
    \/ \E c \in KeyEnv.calls : TranslateGetAPIKey(c, TRUE, TRUE)
    \/ \E c \in KeyEnv.calls : TranslateCheckQuota(c, TRUE)
    \/ \E c \in KeyEnv.calls,
          resp \in {r \in Responses : \/ r.kind = "ok" /\ r.text = "Hola"
                                      \/ r.status \in {400, 403}} :
           /\ resp.kind = "ok" => served < MaxServed
           /\ TranslateFetch(c, resp)
    \/ \E c \in KeyEnv.calls : TranslateCacheRead(c, TRUE)
    \/ \E c \in KeyEnv.calls : TranslateCacheWrite(c, TRUE)
    \/ \E c \in KeyEnv.calls : TranslateTrackRead(c, TRUE)
    \/ \E c \in KeyEnv.calls : TranslateTrackWrite(c, TRUE)
    \/ \E c \in KeyEnv.calls :
           /\ replies[c].handler = "incoming"
           /\ HandleReply(c)
    \/ \E c \in KeyEnv.calls : HandleSetAPIKeyReply(c)
    \/ \E c \in KeyEnv.calls :
           /\ replies[c].state = "answered"
           /\ TranslateReturn(c)
    \/ /\ \A c \in KeyEnv.calls : replies[c].state = "answered"
       /\ SetAPIKeyReturn

SetKeySpec == Init /\ [][SetKeyNext]_vars

\* C37: a setAPIKey request is answered success=true only if the remote
\* provider accepted a translate request made with the newly stored key.
C37_SuccessMeansKeyAccepted ==
    \A c \in Calls :
        (/\ replies[c].state = "answered"
         /\ replies[c].handler = "setAPIKey"
         /\ replies[c].response[1].success
         /\ setter.pc = "done"
         /\ calls[c].pc = "done")
            => /\ calls[c].reqs >= 1
               /\ calls[c].answer.kind = "ok"
               /\ calls[c].apiKey = setter.apiKey

----------------------------------------------------------------------------
(* The strategies below the threshold *)

\* 'https://telegram.org/?setln=es', 'https://facebook.com/?locale=es_ES',
\* 'https://whatsapp.com/?lang=en', 'https://messenger.com/es/',
\* 'https://whatsapp.com/', and 'telegram.org?setln=es', which is no URL
PageURLs ==
    {Https \o TelegramOrg \o <<47, 63>> \o SetlnEq \o Es,
     Https \o FacebookCom \o <<47, 63>> \o LocaleEq \o Es \o <<95, 69, 83>>,
     Https \o WhatsappCom \o <<47, 63>> \o LangEq \o En,
     Https \o MessengerCom \o <<47>> \o Es \o <<47>>,
     Https \o WhatsappCom \o <<47>>,
     TelegramOrg \o <<63>> \o SetlnEq \o Es}

\* One getLanguageWithFallback call at a time, for chats with and without
\* messages and page metadata on pages of every kind of URL
ChainEnv ==
    [dets |-> {1}, overlap |-> FALSE, sites |-> Sites,
     contexts |-> {[Context(list, pageInfo) EXCEPT !.url = url] :
                       list \in {<<>>, <<Msg(HolaAmigos), Msg(HelloThere)>>},
                       pageInfo \in {<<>>, PageEn}, url \in PageURLs},
     responses |-> {r \in DetectResponses : r.kind \in {"ok", "rejected"}},
     io |-> {TRUE}, crypto |-> {TRUE}]

ChainSpec == DetInit /\ [][LangNext(ChainEnv)]_vars

\* C38: every non-null result of detectChatLanguage has method
\* 'messageHistory'; the page-metadata (0.7), URL-pattern (0.6) and platform
\* (0.75) results are always below the threshold of 0.8.
C38_OnlyHistoryAccepted ==
    [][\A d \in Dets : (dets[d].ran = <<>> /\ dets'[d].ran # <<>>) =>
           LET byPage == detectByPageMetadata(dets[d].context.pageInfo)
               byURL == detectByURL(dets[d].context.url)
           IN  /\ dets'[d].detected # <<>>
                     => dets'[d].detected[1].method = "messageHistory"
               /\ byPage # <<>>
                     => /\ byPage[1].confidence = Q(7, 10)
                        /\ ~QGeq(byPage[1].confidence, Q(8, 10))
               /\ byURL # <<>>
                     => /\ byURL[1].confidence
                               = (IF byURL[1].method = "urlPattern" THEN Q(6, 10)
                                  ELSE Q(75, 100))
                        /\ ~QGeq(byURL[1].confidence, Q(8, 10))]_vars

\* detectChatLanguage has returned the result of the message history for a
\* chat on a Telegram page with a language in its metadata and its URL
C38_Witness ==
    \E d \in Dets :
        /\ dets[d].detected # <<>>
        /\ dets[d].detected[1].method = "messageHistory"
        /\ dets[d].context.pageInfo = PageEn
        /\ detectByURL(dets[d].context.url)
               = <<DetectionResult(Es, Q(75, 100), "platform-telegram")>>

----------------------------------------------------------------------------
(* Later calls for a site with a saved detection *)

\* C39: once a detection is saved for a site, every later
\* getLanguageWithFallback for that site returns that same language and
\* never overwrites the saved record, whatever the later context.  (A later
\* call is one whose read of the site configurations, its first step, comes
\* after the save; its context is any of those of the environment.)
C39_SavedLanguageKept ==
    [][\A d \in Dets :
          (/\ dets[d].pc = "savedRead"
           /\ dets'[d].pc # "savedRead"
           /\ returned[dets[d].url] # <<>>)
              => /\ dets'[d].pc = "done"
                 /\ dets'[d].result # <<>>
                 /\ dets'[d].result[1].language = returned[dets[d].url][1]
                 /\ dets'[d].wr = {}
                 /\ siteStore' = siteStore]_vars

----------------------------------------------------------------------------
(* detectLanguage and the circuit breaker *)

\* translate('') calls, which fail and open the breaker, its closing
\* callbacks, and one getLanguageWithFallback call at a time whose
\* detectLanguage requests are answered or fail
OpenNext ==
    \/ \E c \in SeqEnv.calls : TranslateBegin(c, <<>>, <<En, Es>>)
    \/ \E c \in SeqEnv.calls : TranslateReturn(c)
    \/ TimerTick
    \/ TimerFire
    \/ LangNext([DetRaceEnv EXCEPT
                     !.dets = {1}, !.sites = {"site1"},
                     !.contexts = {Context(<<Msg(HolaAmigos), Msg(HelloThere)>>, <<>>)},
                     !.responses = {r \in DetectResponses :
                                        \/ r.kind = "rejected"
                                        \/ r.status \in {429, 500}
                                        \/ r.confidence = Q(1, 1)}])

OpenSpec == DetInit /\ [][OpenNext]_vars

\* C40: detectLanguage neither checks nor changes the circuit breaker: it
\* sends its request even while the breaker is open, and its failures never
\* increment the failure counter or open the breaker.
C40_DetectIgnoresBreaker ==
    [][\A d \in Dets :
          /\ dets'[d] # dets[d]
                 => /\ failureCount' = failureCount
                    /\ circuitOpen' = circuitOpen
                    /\ timers' = timers
          /\ (dets[d].pc = "detectKey" /\ dets'[d] # dets[d])
                 => /\ dets'[d].pc = "detectFetch"
                    /\ dets'[d].sent # dets[d].sent
                    /\ dets'[d].open = Append(dets[d].open, circuitOpen)]_vars

\* two requests were sent while the breaker was open, the first failed, and
\* the counter is where the failed translate calls left it
C40_Witness ==
    \E d \in Dets :
        /\ dets[d].open = <<TRUE, TRUE>>
        /\ dets[d].outcomes # <<>>
        /\ dets[d].outcomes[1] # "ok"
        /\ circuitOpen
        /\ failureCount = THRESHOLD
        /\ Len(timers) = 1

====
